---- MODULE Spec2Model ----
(***************************************************************************)
(* Quiz-session aggregation of the student progress page                   *)
(* (src/unnamed/part_002, component StudentProgress).                      *)
(*                                                                         *)
(* The page receives the array `attempts` from GET /api/quiz-attempts and, *)
(* on every render, computes                                               *)
(*   allSessions                 (partition by userId:bookId, sort, group) *)
(*   averageQuizAcrossSessions() (mean of the session percentages)         *)
(*   latestQuizForBook(bookId)   (last session of sessionsForBook(bookId)) *)
(*                                                                         *)
(* Optional values (x?: T | null) are sequences of length at most one:     *)
(* <<>> is null/absent and <<v>> is the value v.  Arrays of attempts hold  *)
(* references to the attempt objects; a reference is the object's index in *)
(* the fetched array.  Timestamps are milliseconds since the epoch.  A     *)
(* field that holds a string which is neither a number nor a date is the   *)
(* pair <<"text", s>>.                                                      *)
(***************************************************************************)
EXTENDS Integers, Sequences, FiniteSets, TLC

\* ------------------------------------------------------------------------
\* Bounds of the model
\* ------------------------------------------------------------------------

\* Largest number of rows in the fetched attempts array.
MaxAttempts == 3

\* Largest number of requests the server receives.
MaxRequests == 3

\* The user ids and book ids that occur in the rows.
Users == {1, 2}
Books == {1, 2}

\* createdAt values: absent, or a date string, written as the number of
\* milliseconds Date.getTime() gives for it.  1000 -> 121000 is exactly the
\* gap, 121000 -> 241001 is one millisecond more than the gap.
Dates == {<<>>, <<1000>>, <<121000>>, <<241001>>}

\* (scoreCorrect, scoreTotal) values: both absent, 0 of 5, 3 of 5, 4 of 5.
NoScore == << <<>>, <<>> >>
Score05 == << <<0>>, <<5>> >>
Score35 == << <<3>>, <<5>> >>
Score45 == << <<4>>, <<5>> >>

QuizAttempt(u, b, sc, m, d) ==
    [userId |-> u, bookId |-> b, scoreCorrect |-> sc[1], scoreTotal |-> sc[2],
     mode |-> m, createdAt |-> d]

\* The rows the model feeds to the page.  The baseline row is user 1, book 1,
\* mode "retry", 3 of 5; the other rows differ from it in the key, in the mode
\* or in the score:
\*   - the baseline at every date;
\*   - the same book for the other user, and the other book for the same
\*     user, at two dates that are exactly the gap apart;
\*   - mode "straight" at three dates that chain into one session, an
\*     unknown mode at one date;
\*   - 4 of 5, 0 of 5 and absent scores at one date each.
AttemptDomain ==
    {QuizAttempt(1, 1, Score35, "retry", d) : d \in Dates}
    \cup {QuizAttempt(key[1], key[2], Score35, "retry", d) :
             key \in {<<2, 1>>, <<1, 2>>}, d \in {<<1000>>, <<121000>>}}
    \cup {QuizAttempt(1, 1, Score35, "straight", d) : d \in {<<>>, <<1000>>, <<121000>>}}
    \cup {QuizAttempt(1, 1, Score35, "unknown", <<1000>>)}
    \cup {QuizAttempt(1, 1, Score45, "retry", <<241001>>)}
    \cup {QuizAttempt(1, 1, Score05, "retry", <<>>)}
    \cup {QuizAttempt(1, 1, NoScore, "retry", <<1000>>)}

\* Rows at the edge of what the server stores: a score the double
\* arithmetic rounds down (23 of 40), an exact half (1 of 8), and rows with
\* scoreTotal <= 0 (2 of 0, 1 of -5), next to the baseline row.
Score2340 == << <<23>>, <<40>> >>
Score18 == << <<1>>, <<8>> >>
Score20 == << <<2>>, <<0>> >>
Score1Neg5 == << <<1>>, <<-5>> >>

EdgeDomain ==
    {QuizAttempt(1, 1, Score35, "retry", d) : d \in {<<1000>>, <<241001>>}}
    \cup {QuizAttempt(1, 1, Score2340, "retry", <<1000>>)}
    \cup {QuizAttempt(1, 1, Score18, "retry", <<241001>>)}
    \cup {QuizAttempt(1, 1, Score20, "retry", d) : d \in {<<1000>>, <<241001>>}}
    \cup {QuizAttempt(1, 1, Score1Neg5, "retry", <<1000>>)}

\* Values that are no date and no number, and the rows that carry them.
TextDate == <<"text", "not a date">>
ScoreText5 == << <<"text", "abc">>, <<5>> >>
Score3Text == << <<3>>, <<"text", "abc">> >>

MalformedDomain ==
    {QuizAttempt(1, 1, Score35, "retry", d) : d \in {<<>>, <<1000>>, <<241001>>, TextDate}}
    \cup {QuizAttempt(1, 1, ScoreText5, "retry", <<1000>>)}
    \cup {QuizAttempt(1, 1, Score3Text, "retry", <<241001>>)}

\* The page is rendered again (a tab change, a refetch) at most MaxRenders
\* times after its first render.
MaxRenders == 1

RerenderDomain ==
    {QuizAttempt(1, 1, Score35, "retry", d) : d \in {<<>>, <<1000>>, <<241001>>}}
    \cup {QuizAttempt(2, 1, Score35, "retry", <<1000>>)}
    \cup {QuizAttempt(1, 2, Score35, "retry", <<121000>>)}
    \cup {QuizAttempt(1, 1, Score45, "straight", <<1000>>)}

\* An earned-badge record as the badges query delivers it: the date of the
\* award under any of four field names.
EarnedBadge(a, a_, c, c_) ==
    [awardedAt |-> a, awarded_at |-> a_, createdAt |-> c, created_at |-> c_]

MaxBadges == 3

BadgeDomain ==
    {EarnedBadge(<<1000>>, <<>>, <<>>, <<>>),
     EarnedBadge(<<2000>>, <<>>, <<>>, <<>>),
     EarnedBadge(<<>>, <<2000>>, <<>>, <<>>),
     EarnedBadge(<<>>, <<>>, <<1000>>, <<>>),
     EarnedBadge(<<>>, <<>>, <<>>, <<3000>>),
     EarnedBadge(<<1000>>, <<>>, <<3000>>, <<>>),
     EarnedBadge(<<>>, <<>>, <<>>, <<>>)}

\* Badge records at the edge of the fallback chain: an awardedAt or an
\* awarded_at that is the empty string in front of a valid createdAt.
EmptyText == <<"text", "">>

BadgeEdgeDomain ==
    {EarnedBadge(<<1000>>, <<>>, <<>>, <<>>),
     EarnedBadge(<<>>, <<>>, <<2000>>, <<>>),
     EarnedBadge(EmptyText, <<>>, <<3000>>, <<>>),
     EarnedBadge(<<>>, EmptyText, <<3000>>, <<>>),
     EarnedBadge(<<>>, <<>>, <<>>, <<>>)}

RECURSIVE SeqsUpTo(_, _)
SeqsUpTo(S, n) ==
    IF n = 0 THEN {<<>>}
    ELSE LET shorter == SeqsUpTo(S, n - 1)
         IN  shorter \cup {Append(s, x) : s \in {t \in shorter : Len(t) = n - 1}, x \in S}

\* ------------------------------------------------------------------------
\* Program constants and pure helpers
\* ------------------------------------------------------------------------

SESSION_GAP_SEC == 120

\* The number NaN: the value of Number("abc") and of
\* new Date("not a date").getTime().  It is no integer of the model's range.
NaN == -1000000000

\* x + y, x - y, x > y and x < y on numbers that may be NaN.
Plus(x, y) == IF x = NaN \/ y = NaN THEN NaN ELSE x + y
Minus(x, y) == IF x = NaN \/ y = NaN THEN NaN ELSE x - y
Greater(x, y) == x # NaN /\ y # NaN /\ x > y
Less(x, y) == x # NaN /\ y # NaN /\ x < y

\* Number(v ?? 0)
NumberOr0(v) == IF v = <<>> THEN 0 ELSE IF Len(v) = 2 THEN NaN ELSE v[1]

\* The quotients c / t (in lowest terms, 0 <= c <= 200, 0 < t <= 200) for
\* which 100 * c / t is exactly a half but the double (c / t) * 100 is just
\* below it: (23 / 40) * 100 is 57.49999999999999.
DoubleBelowHalf ==
    {<<23, 40>>, <<41, 40>>, <<51, 40>>, <<87, 40>>, <<97, 40>>, <<169, 40>>,
     <<179, 40>>, <<189, 40>>, <<199, 40>>, <<29, 200>>, <<57, 200>>, <<113, 200>>}

\* Math.round((c / t) * 100) for t > 0 and 0 <= c <= 200, t <= 200:
\* Math.round gives the nearest integer, halves upward, of the double
\* (c / t) * 100.  That double rounds as the exact quotient does, except
\* for the quotients of DoubleBelowHalf, where it rounds down.
RoundPct(c, t) ==
    IF c = NaN THEN NaN
    ELSE IF \E q \in DoubleBelowHalf : c * q[2] = q[1] * t
    THEN (200 * c + t) \div (2 * t) - 1
    ELSE (200 * c + t) \div (2 * t)

\* Math.round(sum / n) for n > 0.
RoundDiv(sum, n) == IF sum = NaN THEN NaN ELSE (2 * sum + n) \div (2 * n)

\* Mutant of safePct: the percentage is tested for truth (a.percentage ?
\* a.percentage : ...), so a percentage of 0 is computed again from the score.
safePctTruthy(a) ==
    IF a.percentage # <<>> /\ Len(a.percentage) = 1 /\ a.percentage[1] # 0
    THEN a.percentage[1]
    ELSE LET c == NumberOr0(a.scoreCorrect)
             t == NumberOr0(a.scoreTotal)
         IN  IF Greater(t, 0) THEN RoundPct(c, t) ELSE 0

\* const safePct = (a) => typeof a.percentage === "number" ? a.percentage
\*   : (t > 0 ? Math.round((c / t) * 100) : 0), c and t being Number(x ?? 0)
safePct(a) ==
    IF a.percentage # <<>> /\ Len(a.percentage) = 1
    THEN a.percentage[1]
    ELSE LET c == NumberOr0(a.scoreCorrect)
             t == NumberOr0(a.scoreTotal)
         IN  IF Greater(t, 0) THEN RoundPct(c, t) ELSE 0

\* Mutant of ts: a row without createdAt counts as the latest, not the oldest.
tsAbsentLatest(a) == IF a.createdAt = <<>> THEN 999999 ELSE a.createdAt[1]

\* const ts = (a) => (a.createdAt ? new Date(a.createdAt).getTime() : 0)
ts(a) ==
    IF a.createdAt = <<>> THEN 0
    ELSE IF Len(a.createdAt) = 2 THEN NaN
    ELSE a.createdAt[1]

\* ------------------------------------------------------------------------
\* groupIntoSessions (one iteration of its for-loop, and the whole loop)
\* ------------------------------------------------------------------------

\* const mode = a.mode === "straight" ? "straight" : "retry"
AttemptMode(a) == IF a.mode = "straight" THEN "straight" ELSE "retry"

\* Mutant of StartsNewSession: every row opens a session.
StartsNewSessionAlways(out, cur, a, gapSec) == TRUE

\* Mutant of StartsNewSession: the comparison with the gap is >= for >.
StartsNewSessionAtGap(out, cur, a, gapSec) ==
    \/ cur = 0
    \/ ts(a) - out[cur].endAt >= gapSec * 1000

\* if (!cur || time - cur.endAt > gapSec * 1000)
StartsNewSession(out, cur, a, gapSec) ==
    \/ cur = 0
    \/ Greater(Minus(ts(a), out[cur].endAt), gapSec * 1000)

\* Mutant of Percentage: Math.floor for Math.round.
PercentageFloor(totalCorrect, totalTotal) ==
    IF totalTotal > 0 THEN (100 * totalCorrect) \div totalTotal ELSE 0

\* cur.percentage = cur.totalTotal > 0 ? Math.round(...) : 0
Percentage(totalCorrect, totalTotal) ==
    IF Greater(totalTotal, 0) THEN RoundPct(totalCorrect, totalTotal) ELSE 0

\* Mutant of Accumulate: the totals are assigned (=) instead of added (+=).
AccumulateAssign(s, a) ==
    LET c == NumberOr0(a.scoreCorrect)
        t == NumberOr0(a.scoreTotal)
    IN  [s EXCEPT !.totalCorrect = c,
                  !.totalTotal = t,
                  !.percentage = IF t > 0 THEN RoundPct(c, t) ELSE 0,
                  !.mode = IF AttemptMode(a) = "straight" THEN "straight" ELSE @]

\* Mutant of Accumulate: the session takes the mode of each row (cur.mode = mode).
AccumulateLastMode(s, a) ==
    LET c == s.totalCorrect + NumberOr0(a.scoreCorrect)
        t == s.totalTotal + NumberOr0(a.scoreTotal)
    IN  [s EXCEPT !.totalCorrect = c,
                  !.totalTotal = t,
                  !.percentage = IF t > 0 THEN RoundPct(c, t) ELSE 0,
                  !.mode = AttemptMode(a)]

\* Mutant of Accumulate: the percentage is that of the row folded in last.
AccumulateRowPercentage(s, a) ==
    LET c == Plus(s.totalCorrect, NumberOr0(a.scoreCorrect))
        t == Plus(s.totalTotal, NumberOr0(a.scoreTotal))
    IN  [s EXCEPT !.totalCorrect = c,
                  !.totalTotal = t,
                  !.percentage = Percentage(NumberOr0(a.scoreCorrect), NumberOr0(a.scoreTotal)),
                  !.mode = IF AttemptMode(a) = "straight" THEN "straight" ELSE @]

\* The session object cur after the totals, the percentage and the mode of
\* attempt a have been folded into it.
Accumulate(s, a) ==
    LET c == Plus(s.totalCorrect, NumberOr0(a.scoreCorrect))
        t == Plus(s.totalTotal, NumberOr0(a.scoreTotal))
    IN  [s EXCEPT !.totalCorrect = c,
                  !.totalTotal = t,
                  !.percentage = Percentage(c, t),
                  !.mode = IF AttemptMode(a) = "straight" THEN "straight" ELSE @]

\* cur = { bookId, startAt: time, endAt: time, totalCorrect: 0, ... , mode }
NewSession(a) ==
    [bookId |-> a.bookId, startAt |-> ts(a), endAt |-> ts(a),
     totalCorrect |-> 0, totalTotal |-> 0, percentage |-> 0, mode |-> AttemptMode(a)]

\* Mutant of SessionStep: endAt stays at the first row of the session.
SessionStepPinned(out, cur, a, gapSec) ==
    IF StartsNewSession(out, cur, a, gapSec)
    THEN [out |-> Append(out, Accumulate(NewSession(a), a)), cur |-> Len(out) + 1]
    ELSE [out |-> [out EXCEPT ![cur] = Accumulate(@, a)], cur |-> cur]

\* One iteration of the loop body.  out is the array built so far and cur
\* the position in out of the object the variable cur refers to (0: null).
SessionStep(out, cur, a, gapSec) ==
    IF StartsNewSession(out, cur, a, gapSec)
    THEN [out |-> Append(out, Accumulate(NewSession(a), a)), cur |-> Len(out) + 1]
    ELSE [out |-> [out EXCEPT ![cur] = Accumulate([@ EXCEPT !.endAt = ts(a)], a)],
          cur |-> cur]

\* The loop over the first n elements of list (a sequence of attempt objects).
RECURSIVE GroupPrefix(_, _, _)
GroupPrefix(list, n, gapSec) ==
    IF n = 0 THEN [out |-> <<>>, cur |-> 0]
    ELSE LET st == GroupPrefix(list, n - 1, gapSec)
         IN  SessionStep(st.out, st.cur, list[n], gapSec)

\* groupIntoSessions(list, gapSec = SESSION_GAP_SEC)
groupIntoSessions(list, gapSec) == GroupPrefix(list, Len(list), gapSec).out

\* ------------------------------------------------------------------------
\* Array helpers
\* ------------------------------------------------------------------------

\* sort((a, b) => ts(a) - ts(b)) of an array of references into rows: the
\* sort is stable, so x goes behind every element that is not later than it
\* (a comparator result of NaN counts as 0).
RECURSIVE InsertByTs(_, _, _)
\* Mutant of InsertByTs: the comparator is ts(b) - ts(a).
InsertByTsReversed(rows, sorted, x) ==
    IF sorted = <<>> THEN <<x>>
    ELSE IF ts(rows[Head(sorted)]) - ts(rows[x]) < 0 THEN <<x>> \o sorted
    ELSE <<Head(sorted)>> \o InsertByTs(rows, Tail(sorted), x)

InsertByTs(rows, sorted, x) ==
    IF sorted = <<>> THEN <<x>>
    ELSE IF Less(Minus(ts(rows[x]), ts(rows[Head(sorted)])), 0) THEN <<x>> \o sorted
    ELSE <<Head(sorted)>> \o InsertByTs(rows, Tail(sorted), x)

\* Mutant of SortByTs: the array is grouped in the order it was fetched.
SortByTsSkipped(rows, refs) == refs

RECURSIVE SortByTs(_, _)
SortByTs(rows, refs) ==
    IF refs = <<>> THEN <<>>
    ELSE InsertByTs(rows, SortByTs(rows, SubSeq(refs, 1, Len(refs) - 1)), refs[Len(refs)])

\* The comparator (a, b) => ts(a) - ts(b) orders the rows consistently unless
\* some timestamp is NaN (which compares equal to everything) while two
\* others differ.
ConsistentOrder(rows, refs) ==
    LET T == {ts(rows[refs[j]]) : j \in 1..Len(refs)}
    IN  NaN \notin T \/ Cardinality(T \ {NaN}) <= 1

\* What sort may leave in the array: the stable sorted order for a
\* consistent comparator, and otherwise an order the implementation
\* chooses, any permutation of the array.
SortOutcomes(rows, refs) ==
    IF ConsistentOrder(rows, refs) THEN {SortByTs(rows, refs)}
    ELSE {[j \in 1..Len(refs) |-> refs[p[j]]] :
             p \in {q \in [1..Len(refs) -> 1..Len(refs)] :
                       \A x, y \in 1..Len(refs) : x # y => q[x] # q[y]}}

\* The objects a sequence of references points to.
Deref(rows, refs) == [j \in 1..Len(refs) |-> rows[refs[j]]]

\* Mutant of KeyOf: the key leaves out the user.
KeyOfBookOnly(a) == <<a.bookId>>

\* const key = `${a.userId}:${a.bookId}`
KeyOf(a) == <<a.userId, a.bookId>>

\* The Map byKey after the first loop of allSessions has seen the first n
\* rows: its entries in insertion order, each a key and an array of references.
RECURSIVE ByKeyPrefix(_, _)
ByKeyPrefix(rows, n) ==
    IF n = 0 THEN <<>>
    ELSE LET m   == ByKeyPrefix(rows, n - 1)
             key == KeyOf(rows[n])
             at  == {j \in 1..Len(m) : m[j].key = key}
         IN  IF at = {} THEN Append(m, [key |-> key, arr |-> <<n>>])
             ELSE [j \in 1..Len(m) |->
                      IF j \in at THEN [m[j] EXCEPT !.arr = Append(@, n)] ELSE m[j]]

ByKey(rows) == ByKeyPrefix(rows, Len(rows))

\* attempts.filter((a) => a.bookId === bookId): the references kept, in order.
RECURSIVE FilterBook(_, _, _)
FilterBook(rows, n, bookId) ==
    IF n = 0 THEN <<>>
    ELSE IF rows[n].bookId = bookId THEN Append(FilterBook(rows, n - 1, bookId), n)
    ELSE FilterBook(rows, n - 1, bookId)

\* ------------------------------------------------------------------------
\* The derived values of the page
\* ------------------------------------------------------------------------

\* const sessionsForBook = (bookId) => groupIntoSessions(filter(...).sort(...))
\* for rows that the comparator orders consistently.
sessionsForBook(rows, bookId) ==
    groupIntoSessions(
        Deref(rows, SortByTs(rows, FilterBook(rows, Len(rows), bookId))),
        SESSION_GAP_SEC)

\* Mutant of latestQuizForBook: the first session instead of the last.
latestQuizForBookFirst(rows, bookId) ==
    LET sessions == sessionsForBook(rows, bookId)
    IN  IF Len(sessions) # 0 THEN <<sessions[1]>> ELSE <<>>

\* const latestQuizForBook = (bookId) => sessions.length ? last : null
latestQuizForBook(rows, bookId) ==
    LET sessions == sessionsForBook(rows, bookId)
    IN  IF Len(sessions) # 0 THEN <<sessions[Len(sessions)]>> ELSE <<>>

RECURSIVE SumPercentage(_, _)
SumPercentage(ss, n) ==
    IF n = 0 THEN 0 ELSE Plus(SumPercentage(ss, n - 1), ss[n].percentage)

\* Mutant of averageQuizAcrossSessions: the mean is truncated, not rounded.
averageQuizTruncated(ss) ==
    IF Len(ss) = 0 THEN <<>>
    ELSE <<SumPercentage(ss, Len(ss)) \div Len(ss)>>

\* Mutant of averageQuizAcrossSessions: 0 instead of null for no sessions.
averageQuizZeroForNone(ss) ==
    IF Len(ss) = 0 THEN <<0>>
    ELSE <<RoundDiv(SumPercentage(ss, Len(ss)), Len(ss))>>

\* const averageQuizAcrossSessions = () => ... (null is <<>>)
averageQuizAcrossSessions(ss) ==
    IF Len(ss) = 0 THEN <<>>
    ELSE <<RoundDiv(SumPercentage(ss, Len(ss)), Len(ss))>>

\* ------------------------------------------------------------------------
\* The earned-badge list
\* ------------------------------------------------------------------------

\* awardedAt ?? awarded_at ?? createdAt ?? created_at: the first field that
\* is not null or undefined.
BestDate(b) ==
    IF b.awardedAt # <<>> THEN b.awardedAt
    ELSE IF b.awarded_at # <<>> THEN b.awarded_at
    ELSE IF b.createdAt # <<>> THEN b.createdAt
    ELSE b.created_at

\* aDate ? new Date(aDate).getTime() : 0  (the empty string is falsy)
BadgeTime(b) ==
    LET d == BestDate(b)
    IN  IF d = <<>> THEN 0
        ELSE IF Len(d) = 2 THEN (IF d[2] = "" THEN 0 ELSE NaN)
        ELSE d[1]

\* sort((a, b) => tb - ta) of an array of references into the badge list:
\* stable, x goes behind every element that is not earlier than it.
RECURSIVE InsertByAward(_, _, _)
\* Mutant of InsertByAward: the comparator ta - tb.
InsertByAwardAscending(badges, sorted, x) ==
    IF sorted = <<>> THEN <<x>>
    ELSE IF Less(Minus(BadgeTime(badges[x]), BadgeTime(badges[Head(sorted)])), 0)
         THEN <<x>> \o sorted
    ELSE <<Head(sorted)>> \o InsertByAward(badges, Tail(sorted), x)

InsertByAward(badges, sorted, x) ==
    IF sorted = <<>> THEN <<x>>
    ELSE IF Less(Minus(BadgeTime(badges[Head(sorted)]), BadgeTime(badges[x])), 0)
         THEN <<x>> \o sorted
    ELSE <<Head(sorted)>> \o InsertByAward(badges, Tail(sorted), x)

RECURSIVE SortByAward(_, _)
SortByAward(badges, n) ==
    IF n = 0 THEN <<>>
    ELSE InsertByAward(badges, SortByAward(badges, n - 1), n)

\* What earnedBadges.slice().sort(...) may return, as references into
\* earnedBadges: the stable order, or any order when a NaN time makes the
\* comparator inconsistent.
BadgeSortOutcomes(badges) ==
    LET n == Len(badges)
        T == {BadgeTime(badges[j]) : j \in 1..n}
    IN  IF NaN \notin T \/ Cardinality(T \ {NaN}) <= 1
        THEN {SortByAward(badges, n)}
        ELSE {q \in [1..n -> 1..n] : \A x, y \in 1..n : x # y => q[x] # q[y]}

\* ------------------------------------------------------------------------
\* The server: quiz attempts
\* ------------------------------------------------------------------------

\* The request slots of the server: requests in different slots interleave
\* at every await.
Handlers == {1, 2}

\* The page ids of the quiz pages.
Pages == {1, 2}

\* The time that may pass between two readings of the database clock.
ClockSteps == {1000, 121000}

\* parseInt(v, 10) of a number, of null or undefined, or of a text that
\* does not start with a digit.
ParseInt(v) == IF v = <<>> \/ Len(v) = 2 THEN NaN ELSE v[1]

\* The authenticated user and the body of a POST /api/quiz-attempts.
QuizPost(u, role, b, p, c, t, pct, m) ==
    [user |-> [id |-> u, role |-> role], bookId |-> b, pageId |-> p,
     scoreCorrect |-> c, scoreTotal |-> t, percentage |-> pct, mode |-> m,
     userId |-> <<>>]

\* const ownerUserId = user.role === "student" ? user.id : parseInt(userId, 10) || user.id
OwnerUserId(req) ==
    IF req.user.role = "student" THEN req.user.id
    ELSE IF ParseInt(req.userId) \in {NaN, 0} THEN req.user.id
    ELSE ParseInt(req.userId)

\* Mutant of PostRejected: a total of 0 and a score above the total pass.
PostRejectedMissingOnly(req) ==
    \/ req.bookId = <<>> \/ req.scoreCorrect = <<>> \/ req.scoreTotal = <<>>
    \/ ParseInt(req.bookId) = NaN
    \/ (req.pageId # <<>> /\ ParseInt(req.pageId) = NaN)
    \/ ParseInt(req.scoreCorrect) = NaN
    \/ ParseInt(req.scoreTotal) = NaN

\* The two checks that answer 400.
PostRejected(req) ==
    \/ req.bookId = <<>> \/ req.scoreCorrect = <<>> \/ req.scoreTotal = <<>>
    \/ ParseInt(req.bookId) = NaN
    \/ (req.pageId # <<>> /\ ParseInt(req.pageId) = NaN)
    \/ ParseInt(req.scoreCorrect) = NaN
    \/ ParseInt(req.scoreTotal) = NaN
    \/ ParseInt(req.scoreTotal) <= 0
    \/ ParseInt(req.scoreCorrect) < 0
    \/ ParseInt(req.scoreCorrect) > ParseInt(req.scoreTotal)

\* const computedPct = typeof percentage === "number" ? Math.round(percentage)
\*                                                    : Math.round((safeCorrect / safeTotal) * 100)
ComputedPct(req) ==
    IF req.percentage # <<>> /\ Len(req.percentage) = 1 THEN req.percentage[1]
    ELSE RoundPct(ParseInt(req.scoreCorrect), ParseInt(req.scoreTotal))

\* The where clause of existingLatest: user, book and, unless safePageId is
\* null, page.
MatchesLatest(row, owner, book, page) ==
    /\ row.userId = owner
    /\ row.bookId = book
    /\ page = <<>> \/ row.pageId = page

\* findFirst(... orderBy desc(attemptNumber)): <<>> for no row, else <<row>>
\* for a matching row of the greatest attemptNumber (any of them when
\* several have it).
ExistingLatest(table, owner, book, page) ==
    LET M == {j \in 1..Len(table) : MatchesLatest(table[j], owner, book, page)}
    IN  IF M = {} THEN {<<>>}
        ELSE {<<table[j]>> : j \in {x \in M : \A y \in M :
                                       table[x].attemptNumber >= table[y].attemptNumber}}

\* const nextAttemptNumber = existingLatest ? (existingLatest.attemptNumber ?? 0) + 1 : 1
NextAttemptNumber(existingLatest) ==
    IF existingLatest = <<>> THEN 1 ELSE existingLatest[1].attemptNumber + 1

\* A row of quiz_attempts.
QuizRow(id, u, b, p, c, t, pct, m, n, at) ==
    [id |-> id, userId |-> u, bookId |-> b, pageId |-> p, scoreCorrect |-> c,
     scoreTotal |-> t, percentage |-> pct, mode |-> m, attemptNumber |-> n,
     createdAt |-> at]

\* A request slot that serves no request.
IdleSlot ==
    [pc |-> "idle", owner |-> 0, bookId |-> 0, pageId |-> <<>>, correct |-> 0,
     total |-> 0, pct |-> 0, pctSent |-> FALSE, mode |-> "retry", next |-> 0,
     status |-> 0]

\* The authenticated user and the query of a GET /api/quiz-attempts.
QuizGet(u, role, qu, qb, qp, latestPerBook) ==
    [user |-> [id |-> u, role |-> role], userId |-> qu, bookId |-> qb,
     pageId |-> qp, latestPerBook |-> latestPerBook]

\* The rows the where clauses of the GET leave, as positions in the table.
GetFiltered(table, req) ==
    LET filterUserId == IF req.user.role = "student" THEN <<req.user.id>> ELSE req.userId
    IN  {j \in 1..Len(table) :
           /\ filterUserId # <<>> => table[j].userId = filterUserId[1]
           /\ req.bookId # <<>> => table[j].bookId = req.bookId[1]
           /\ req.pageId # <<>> => table[j].pageId = req.pageId}

\* orderBy desc(createdAt): the orders the database may deliver the rows of
\* S in (rows of equal createdAt in any order).
DescByCreatedAt(table, S) ==
    LET n == Cardinality(S)
    IN  {[j \in 1..n |-> table[p[j]]] :
           p \in {q \in [1..n -> S] :
                     /\ \A x, y \in 1..n : x # y => q[x] # q[y]
                     /\ \A x, y \in 1..n :
                           x < y => table[q[x]].createdAt >= table[q[y]].createdAt}}

\* The position of key in the entries of a Map, 0 if it has none.
MapIndex(entries, key) ==
    IF \E j \in 1..Len(entries) : entries[j].key = key
    THEN CHOOSE j \in 1..Len(entries) : entries[j].key = key
    ELSE 0

\* One iteration of for (const a of attempts) over latestMap.
LatestMapStep(entries, a) ==
    LET key == <<a.userId, a.bookId>>
        at == MapIndex(entries, key)
    IN  IF at = 0 THEN Append(entries, [key |-> key, value |-> a])
        ELSE IF \/ a.attemptNumber > entries[at].value.attemptNumber
                \/ a.createdAt > entries[at].value.createdAt
        THEN [entries EXCEPT ![at].value = a]
        ELSE entries

RECURSIVE LatestMap(_, _)
LatestMap(rows, n) ==
    IF n = 0 THEN <<>> ELSE LatestMapStep(LatestMap(rows, n - 1), rows[n])

\* payload: the rows, or Array.from(latestMap.values()) for latestPerBook=true.
GetPayload(rows, req) ==
    IF req.latestPerBook
    THEN LET m == LatestMap(rows, Len(rows)) IN [j \in 1..Len(m) |-> m[j].value]
    ELSE rows

\* The payloads GET /api/quiz-attempts may answer.
GetQuizAttempts(table, req) ==
    {GetPayload(rows, req) : rows \in DescByCreatedAt(table, GetFiltered(table, req))}

\* A stored row as the page reads it from the JSON of the response.
AsQuizAttempt(row) ==
    QuizAttempt(row.userId, row.bookId, << <<row.scoreCorrect>>, <<row.scoreTotal>> >>,
                row.mode, <<row.createdAt>>)

\* ------------------------------------------------------------------------
\* The server: reading sessions and progress
\* ------------------------------------------------------------------------

\* A row of reading_sessions; endTime and totalMinutes are null (<<>>) while
\* the session is active.
ReadingRow(id, u, b, startTime, endTime, totalMinutes) ==
    [id |-> id, userId |-> u, bookId |-> b, startTime |-> startTime,
     endTime |-> endTime, totalMinutes |-> totalMinutes]

\* A row of progress.
ProgressRow(id, u, b, percentComplete, totalReadingTime) ==
    [id |-> id, userId |-> u, bookId |-> b, percentComplete |-> percentComplete,
     totalReadingTime |-> totalReadingTime]

\* findFirst of the active session of (userId, bookId): <<>>, or <<row>> for
\* any row of the pair whose endTime is null.
ActiveSession(table, u, b) ==
    LET A == {j \in 1..Len(table) :
                table[j].userId = u /\ table[j].bookId = b /\ table[j].endTime = <<>>}
    IN  IF A = {} THEN {<<>>} ELSE {<<table[j]>> : j \in A}

\* findFirst of the progress of (userId, bookId): <<>>, or <<row>>.
ExistingProgress(table, u, b) ==
    LET E == {j \in 1..Len(table) : table[j].userId = u /\ table[j].bookId = b}
    IN  IF E = {} THEN {<<>>} ELSE {<<table[j]>> : j \in E}

\* Math.floor((endTime.getTime() - startTime.getTime()) / 1000)
TotalSeconds(startTime, endTime) == (endTime - startTime) \div 1000

\* update(...).set(fields).where(eq(id, theId)) on a table whose row ids are
\* their positions.
UpdateRow(table, theId, fields) ==
    [j \in 1..Len(table) |->
        IF table[j].id = theId
        THEN [f \in DOMAIN table[j] |->
                 IF f \in DOMAIN fields THEN fields[f] ELSE table[j][f]]
        ELSE table[j]]

\* A request slot that serves no reading or progress request.
IdleReading ==
    [pc |-> "idle", kind |-> "none", userId |-> 0, bookId |-> 0, sessionId |-> 0,
     startTime |-> 0, endTime |-> 0, totalSeconds |-> 0, progressId |-> 0,
     existingTime |-> 0, percentComplete |-> 0, created |-> FALSE, status |-> 0]

\* ------------------------------------------------------------------------
\* The server: book completion and badges
\* ------------------------------------------------------------------------

\* A row of earned_badges; bookId is <<>> for null.
EarnedRow(id, u, badgeId, b, awardedById) ==
    [id |-> id, userId |-> u, badgeId |-> badgeId, bookId |-> b,
     awardedById |-> awardedById]

\* The rows of book_badges joined with badges for a book: book 1 carries
\* badges 1 and 2, book 2 none.
MappedBadges(b) == IF b = 1 THEN <<1, 2>> ELSE <<>>

\* earnedBadges.findFirst on (userId, badgeId, bookId or null): <<>> for
\* no row, else any one matching row.
AlreadyEarned(table, u, badgeId, b) ==
    LET hits == {j \in 1..Len(table) :
                   /\ table[j].userId = u
                   /\ table[j].badgeId = badgeId
                   /\ table[j].bookId = b}
    IN IF hits = {} THEN {<<>>} ELSE {<<table[j]>> : j \in hits}

\* A request slot of the completion and award routes.
IdleAward ==
    [pc |-> "idle", kind |-> "none", userId |-> 0, bookId |-> <<>>, badgeId |-> 0,
     awardedById |-> <<>>, progressId |-> 0, mappedBadges |-> <<>>, at |-> 0,
     newlyAwarded |-> <<>>, repeat |-> FALSE, status |-> 0]

\* ------------------------------------------------------------------------
\* State
\* ------------------------------------------------------------------------

VARIABLES
    attempts,     \* the fetched array (quizAttemptsData.attempts || [])
    pc,           \* where the render is: "start", "sort", "group", "average", "render"
                  \* ("fetch" while the quiz-attempts query has no data yet)
    byKey,        \* allSessions: the Map of userId:bookId -> array of rows
    k,            \* allSessions: position in byKey of the entry being grouped
    list,         \* groupIntoSessions: its argument (references, time ascending)
    i,            \* groupIntoSessions: position in list of the next row
    out,          \* groupIntoSessions: the sessions built so far
    cur,          \* groupIntoSessions: position in out of the current session, 0 for null
    sessions,     \* allSessions: the array the groups are pushed onto
    avgQuiz,      \* <<"pending">> until computed, then averageQuizAcrossSessions()
    latest,       \* bookId -> latestQuizForBook(bookId), for the books rendered so far
    rowsOfOut,    \* history: for each session of out, the rows folded into it
    rowsOfSessions, \* history: for each session of sessions, the rows folded into it
    earnedBadges, \* the fetched earned-badge array
    shownBadges,  \* <<>> until the badge list is rendered, then <<order>>: the
                  \* rendered cards as references into earnedBadges
    renders,      \* how often the page has been rendered again
    prev,         \* <<>>, or <<r>>: what the previous render computed
    heap,         \* the number of session objects created so far
    idsOfOut,     \* the identity of each object of out
    idsOfSessions, \* the identity of each object of sessions
    latestIds,    \* bookId -> identity of the object latest[bookId], 0 for null
    prevIds,      \* the identities of the objects previous renders returned
    quizTable,    \* the rows of quiz_attempts, in the order of their insertion
    now,          \* the database clock at its last reading, in milliseconds
    post,         \* for each request slot, the POST /api/quiz-attempts it serves
    served,       \* the number of requests received
    getResp,      \* <<>>, or <<r>>: the last GET /api/quiz-attempts?latestPerBook=true
                  \* (r.req), its answer (r.payload), and the table it read (r.table)
    readingTable, \* the rows of reading_sessions, in the order of their insertion
    progressTable, \* the rows of progress, in the order of their insertion
    rd,           \* for each request slot, the reading-session or progress request it serves
    earnedTable,  \* the rows of earned_badges, in the order of their insertion
    aw,           \* for each request slot, the completion or award request it serves
    completions,  \* the <<userId, bookId>> whose completion has been answered with 200
    safeArg,      \* <<a>> for the attempt safePct is called with, <<>> without a call
    safeOut       \* <<v>> for the value the call returned, <<>> before it returns

badgeVars == <<earnedBadges, shownBadges>>

quizServerVars == <<quizTable, now, post, served, getResp>>

readingVars == <<readingTable, progressTable, rd>>

awardVars == <<earnedTable, aw, completions>>

safeVars == <<safeArg, safeOut>>

serverVars == <<quizServerVars, readingVars, awardVars>>

pageVars == <<attempts, pc, byKey, k, list, i, out, cur, sessions, avgQuiz, latest,
              rowsOfOut, rowsOfSessions, earnedBadges, shownBadges,
              renders, prev, heap, idsOfOut, idsOfSessions, latestIds, prevIds>>

vars == <<attempts, pc, byKey, k, list, i, out, cur, sessions, avgQuiz, latest,
          rowsOfOut, rowsOfSessions, earnedBadges, shownBadges,
          renders, prev, heap, idsOfOut, idsOfSessions, latestIds, prevIds,
          quizTable, now, post, served, getResp, readingTable, progressTable, rd,
          earnedTable, aw, completions, safeArg, safeOut>>

\* The server before any request.
QuizServerIdle ==
    /\ quizTable = <<>>
    /\ now = 0
    /\ post = [h \in Handlers |-> IdleSlot]
    /\ served = 0
    /\ getResp = <<>>

\* No reading session, no progress row, no request.
ReadingIdle ==
    /\ readingTable = <<>>
    /\ progressTable = <<>>
    /\ rd = [h \in Handlers |-> IdleReading]

AwardIdle ==
    /\ earnedTable = <<>>
    /\ aw = [h \in Handlers |-> IdleAward]
    /\ completions = {}

ServerIdle == QuizServerIdle /\ ReadingIdle /\ AwardIdle

\* safePct is not called.
SafeIdle ==
    /\ safeArg = <<>>
    /\ safeOut = <<>>

Init ==
    /\ attempts \in SeqsUpTo(AttemptDomain, MaxAttempts)
    /\ pc = "start"
    /\ byKey = <<>>
    /\ k = 0
    /\ list = <<>>
    /\ i = 0
    /\ out = <<>>
    /\ cur = 0
    /\ sessions = <<>>
    /\ avgQuiz = <<"pending">>
    /\ latest = <<>>
    /\ rowsOfOut = <<>>
    /\ rowsOfSessions = <<>>
    /\ earnedBadges = <<>>
    /\ shownBadges = <<>>
    /\ renders = 0
    /\ prev = <<>>
    /\ heap = 0
    /\ idsOfOut = <<>>
    /\ idsOfSessions = <<>>
    /\ latestIds = <<>>
    /\ prevIds = {}
    /\ ServerIdle
    /\ SafeIdle

\* ------------------------------------------------------------------------
\* Actions: one render of the page
\* ------------------------------------------------------------------------

\* allSessions, first loop: for (const a of attempts) byKey.set(key, arr)
Partition ==
    /\ pc = "start"
    /\ byKey' = ByKey(attempts)
    /\ k' = 1
    /\ pc' = IF ByKey(attempts) = <<>> THEN "average" ELSE "sort"
    /\ UNCHANGED <<attempts, list, i, out, cur, sessions, avgQuiz, latest,
                   rowsOfOut, rowsOfSessions>>
    /\ UNCHANGED badgeVars
    /\ UNCHANGED <<serverVars, safeVars>>
    /\ UNCHANGED <<renders, prev, heap, idsOfOut, idsOfSessions, latestIds, prevIds>>

\* allSessions, second loop: sorted = arr.slice().sort(...) and the call of
\* groupIntoSessions(sorted) up to its loop.
SortPartition ==
    /\ pc = "sort"
    /\ list' \in SortOutcomes(attempts, byKey[k].arr)
    /\ i' = 1
    /\ out' = <<>>
    /\ cur' = 0
    /\ rowsOfOut' = <<>>
    /\ pc' = "group"
    /\ UNCHANGED <<attempts, byKey, k, sessions, avgQuiz, latest, rowsOfSessions>>
    /\ UNCHANGED badgeVars
    /\ UNCHANGED <<serverVars, safeVars>>
    /\ idsOfOut' = <<>>
    /\ UNCHANGED <<renders, prev, heap, idsOfSessions, latestIds, prevIds>>

\* groupIntoSessions: one iteration of for (const a of list)
GroupStep ==
    /\ pc = "group"
    /\ i <= Len(list)
    /\ LET st == SessionStep(out, cur, attempts[list[i]], SESSION_GAP_SEC)
       IN  /\ out' = st.out
           /\ cur' = st.cur
           /\ rowsOfOut' = IF Len(st.out) > Len(out)
                            THEN Append(rowsOfOut, <<list[i]>>)
                            ELSE [rowsOfOut EXCEPT ![cur] = Append(@, list[i])]
           /\ heap' = IF Len(st.out) > Len(out) THEN heap + 1 ELSE heap
           /\ idsOfOut' = IF Len(st.out) > Len(out)
                           THEN Append(idsOfOut, heap + 1)
                           ELSE idsOfOut
    /\ i' = i + 1
    /\ UNCHANGED <<attempts, pc, byKey, k, list, sessions, avgQuiz, latest, rowsOfSessions>>
    /\ UNCHANGED badgeVars
    /\ UNCHANGED <<serverVars, safeVars>>
    /\ UNCHANGED <<renders, prev, idsOfSessions, latestIds, prevIds>>

\* groupIntoSessions returns out; allSessions: sessions.push(...out), next entry
PushSessions ==
    /\ pc = "group"
    /\ i > Len(list)
    /\ sessions' = sessions \o out
    /\ rowsOfSessions' = rowsOfSessions \o rowsOfOut
    /\ k' = k + 1
    /\ pc' = IF k < Len(byKey) THEN "sort" ELSE "average"
    /\ UNCHANGED <<attempts, byKey, list, i, out, cur, avgQuiz, latest, rowsOfOut>>
    /\ UNCHANGED badgeVars
    /\ UNCHANGED <<serverVars, safeVars>>
    /\ idsOfSessions' = idsOfSessions \o idsOfOut
    /\ UNCHANGED <<renders, prev, heap, idsOfOut, latestIds, prevIds>>

\* const avgQuiz = averageQuizAcrossSessions()
Average ==
    /\ pc = "average"
    /\ avgQuiz' = averageQuizAcrossSessions(sessions)
    /\ pc' = "render"
    /\ UNCHANGED <<attempts, byKey, k, list, i, out, cur, sessions, latest,
                   rowsOfOut, rowsOfSessions>>
    /\ UNCHANGED badgeVars
    /\ UNCHANGED <<serverVars, safeVars>>
    /\ UNCHANGED <<renders, prev, heap, idsOfOut, idsOfSessions, latestIds, prevIds>>

\* Mutant of RenderBook: sessionsForBook sorts the attempts array itself.
RenderBookSortingAttempts ==
    /\ pc = "render"
    /\ \E b \in Books \ DOMAIN latest :
          LET n == Len(sessionsForBook(attempts, b))
          IN  /\ latest' = [x \in DOMAIN latest \cup {b} |->
                               IF x = b THEN latestQuizForBook(attempts, b) ELSE latest[x]]
              /\ heap' = heap + n
              /\ latestIds' = [x \in DOMAIN latest \cup {b} |->
                                  IF x # b THEN latestIds[x]
                                  ELSE IF n = 0 THEN 0 ELSE heap + n]
    /\ attempts' = Deref(attempts, SortByTs(attempts, [j \in 1..Len(attempts) |-> j]))
    /\ UNCHANGED <<pc, byKey, k, list, i, out, cur, sessions, avgQuiz,
                   rowsOfOut, rowsOfSessions>>
    /\ UNCHANGED badgeVars
    /\ UNCHANGED <<serverVars, safeVars>>
    /\ UNCHANGED <<renders, prev, idsOfOut, idsOfSessions, prevIds>>

\* A row of the progress tables calls latestQuizForBook(bookId).
RenderBook ==
    /\ pc = "render"
    /\ \E b \in Books \ DOMAIN latest :
          LET n == Len(sessionsForBook(attempts, b))
          IN  /\ latest' = [x \in DOMAIN latest \cup {b} |->
                               IF x = b THEN latestQuizForBook(attempts, b) ELSE latest[x]]
              /\ heap' = heap + n
              /\ latestIds' = [x \in DOMAIN latest \cup {b} |->
                                  IF x # b THEN latestIds[x]
                                  ELSE IF n = 0 THEN 0 ELSE heap + n]
    /\ UNCHANGED <<attempts, pc, byKey, k, list, i, out, cur, sessions, avgQuiz,
                   rowsOfOut, rowsOfSessions>>
    /\ UNCHANGED badgeVars
    /\ UNCHANGED <<serverVars, safeVars>>
    /\ UNCHANGED <<renders, prev, idsOfOut, idsOfSessions, prevIds>>

Next ==
    \/ Partition
    \/ SortPartition
    \/ GroupStep
    \/ PushSessions
    \/ Average
    \/ RenderBook

Spec == Init /\ [][Next]_vars

\* The render of an array of edge rows.
InitEdge ==
    /\ attempts \in SeqsUpTo(EdgeDomain, MaxAttempts)
    /\ pc = "start"
    /\ byKey = <<>>
    /\ k = 0
    /\ list = <<>>
    /\ i = 0
    /\ out = <<>>
    /\ cur = 0
    /\ sessions = <<>>
    /\ avgQuiz = <<"pending">>
    /\ latest = <<>>
    /\ rowsOfOut = <<>>
    /\ rowsOfSessions = <<>>
    /\ earnedBadges = <<>>
    /\ shownBadges = <<>>
    /\ renders = 0
    /\ prev = <<>>
    /\ heap = 0
    /\ idsOfOut = <<>>
    /\ idsOfSessions = <<>>
    /\ latestIds = <<>>
    /\ prevIds = {}
    /\ ServerIdle
    /\ SafeIdle

SpecEdge == InitEdge /\ [][Next]_vars

\* The render of an array that holds malformed rows, up to the average.
InitMalformed ==
    /\ attempts \in SeqsUpTo(MalformedDomain, MaxAttempts)
    /\ pc = "start"
    /\ byKey = <<>>
    /\ k = 0
    /\ list = <<>>
    /\ i = 0
    /\ out = <<>>
    /\ cur = 0
    /\ sessions = <<>>
    /\ avgQuiz = <<"pending">>
    /\ latest = <<>>
    /\ rowsOfOut = <<>>
    /\ rowsOfSessions = <<>>
    /\ earnedBadges = <<>>
    /\ shownBadges = <<>>
    /\ renders = 0
    /\ prev = <<>>
    /\ heap = 0
    /\ idsOfOut = <<>>
    /\ idsOfSessions = <<>>
    /\ latestIds = <<>>
    /\ prevIds = {}
    /\ ServerIdle
    /\ SafeIdle

NextMalformed ==
    \/ Partition
    \/ SortPartition
    \/ GroupStep
    \/ PushSessions
    \/ Average

SpecMalformed == InitMalformed /\ [][NextMalformed]_vars

\* The badges tab: earnedBadges.slice().sort(...).map(...), or "No badges
\* yet" for an empty array.
RenderBadges ==
    /\ shownBadges = <<>>
    /\ \E order \in (IF Len(earnedBadges) = 0 THEN {<<>>}
                      ELSE BadgeSortOutcomes(earnedBadges)) :
          shownBadges' = <<order>>
    /\ UNCHANGED <<attempts, pc, byKey, k, list, i, out, cur, sessions, avgQuiz, latest,
                   rowsOfOut, rowsOfSessions, earnedBadges>>
    /\ UNCHANGED <<renders, prev, heap, idsOfOut, idsOfSessions, latestIds, prevIds>>
    /\ UNCHANGED <<serverVars, safeVars>>

\* The render of the badges tab for a fetched earned-badge array.
InitBadges ==
    /\ earnedBadges \in SeqsUpTo(BadgeDomain, MaxBadges)
    /\ shownBadges = <<>>
    /\ attempts = <<>>
    /\ pc = "start"
    /\ byKey = <<>>
    /\ k = 0
    /\ list = <<>>
    /\ i = 0
    /\ out = <<>>
    /\ cur = 0
    /\ sessions = <<>>
    /\ avgQuiz = <<"pending">>
    /\ latest = <<>>
    /\ rowsOfOut = <<>>
    /\ rowsOfSessions = <<>>
    /\ renders = 0
    /\ prev = <<>>
    /\ heap = 0
    /\ idsOfOut = <<>>
    /\ idsOfSessions = <<>>
    /\ latestIds = <<>>
    /\ prevIds = {}
    /\ ServerIdle
    /\ SafeIdle

NextBadges == RenderBadges

SpecBadges == InitBadges /\ [][NextBadges]_vars

\* Mutant of Rerender: the sessions array outlives the render.
RerenderSharedSessions ==
    /\ pc = "render"
    /\ DOMAIN latest = Books
    /\ renders < MaxRenders
    /\ renders' = renders + 1
    /\ prev' = <<[sessions |-> sessions, avgQuiz |-> avgQuiz, latest |-> latest]>>
    /\ prevIds' = prevIds \cup {idsOfSessions[j] : j \in 1..Len(idsOfSessions)}
                          \cup ({latestIds[b] : b \in DOMAIN latestIds} \ {0})
    /\ pc' = "start"
    /\ byKey' = <<>>
    /\ k' = 0
    /\ list' = <<>>
    /\ i' = 0
    /\ out' = <<>>
    /\ cur' = 0
    /\ avgQuiz' = <<"pending">>
    /\ latest' = <<>>
    /\ rowsOfOut' = <<>>
    /\ idsOfOut' = <<>>
    /\ latestIds' = <<>>
    /\ UNCHANGED <<attempts, heap, sessions, rowsOfSessions, idsOfSessions>>
    /\ UNCHANGED badgeVars
    /\ UNCHANGED <<serverVars, safeVars>>

\* The component function runs again on the same fetched array once the
\* page is rendered: every const of the function body is computed anew.
Rerender ==
    /\ pc = "render"
    /\ DOMAIN latest = Books
    /\ renders < MaxRenders
    /\ renders' = renders + 1
    /\ prev' = <<[sessions |-> sessions, avgQuiz |-> avgQuiz, latest |-> latest]>>
    /\ prevIds' = prevIds \cup {idsOfSessions[j] : j \in 1..Len(idsOfSessions)}
                          \cup ({latestIds[b] : b \in DOMAIN latestIds} \ {0})
    /\ pc' = "start"
    /\ byKey' = <<>>
    /\ k' = 0
    /\ list' = <<>>
    /\ i' = 0
    /\ out' = <<>>
    /\ cur' = 0
    /\ sessions' = <<>>
    /\ avgQuiz' = <<"pending">>
    /\ latest' = <<>>
    /\ rowsOfOut' = <<>>
    /\ rowsOfSessions' = <<>>
    /\ idsOfOut' = <<>>
    /\ idsOfSessions' = <<>>
    /\ latestIds' = <<>>
    /\ UNCHANGED <<attempts, heap>>
    /\ UNCHANGED badgeVars
    /\ UNCHANGED <<serverVars, safeVars>>

\* Renders of one fetched array, one after the other.
InitRerender ==
    /\ attempts \in SeqsUpTo(RerenderDomain, MaxAttempts)
    /\ pc = "start"
    /\ byKey = <<>>
    /\ k = 0
    /\ list = <<>>
    /\ i = 0
    /\ out = <<>>
    /\ cur = 0
    /\ sessions = <<>>
    /\ avgQuiz = <<"pending">>
    /\ latest = <<>>
    /\ rowsOfOut = <<>>
    /\ rowsOfSessions = <<>>
    /\ earnedBadges = <<>>
    /\ shownBadges = <<>>
    /\ renders = 0
    /\ prev = <<>>
    /\ heap = 0
    /\ idsOfOut = <<>>
    /\ idsOfSessions = <<>>
    /\ latestIds = <<>>
    /\ prevIds = {}
    /\ ServerIdle
    /\ SafeIdle

NextRerender ==
    \/ Next
    \/ Rerender

SpecRerender == InitRerender /\ [][NextRerender]_vars

\* The render of the badges tab for an array of edge records.
InitBadgesEdge ==
    /\ earnedBadges \in SeqsUpTo(BadgeEdgeDomain, MaxBadges)
    /\ shownBadges = <<>>
    /\ attempts = <<>>
    /\ pc = "start"
    /\ byKey = <<>>
    /\ k = 0
    /\ list = <<>>
    /\ i = 0
    /\ out = <<>>
    /\ cur = 0
    /\ sessions = <<>>
    /\ avgQuiz = <<"pending">>
    /\ latest = <<>>
    /\ rowsOfOut = <<>>
    /\ rowsOfSessions = <<>>
    /\ renders = 0
    /\ prev = <<>>
    /\ heap = 0
    /\ idsOfOut = <<>>
    /\ idsOfSessions = <<>>
    /\ latestIds = <<>>
    /\ prevIds = {}
    /\ ServerIdle
    /\ SafeIdle

SpecBadgesEdge == InitBadgesEdge /\ [][NextBadges]_vars

\* The query refetches once the page is rendered and delivers the same rows
\* in another order; the component function runs again on the new array.
Refetch ==
    /\ pc = "render"
    /\ DOMAIN latest = Books
    /\ renders < MaxRenders
    /\ \E p \in {q \in [1..Len(attempts) -> 1..Len(attempts)] :
                    \A x, y \in 1..Len(attempts) : x # y => q[x] # q[y]} :
          attempts' = [j \in 1..Len(attempts) |-> attempts[p[j]]]
    /\ renders' = renders + 1
    /\ prev' = <<[attempts |-> attempts, sessions |-> sessions,
                  avgQuiz |-> avgQuiz, latest |-> latest]>>
    /\ prevIds' = prevIds \cup {idsOfSessions[j] : j \in 1..Len(idsOfSessions)}
                          \cup ({latestIds[b] : b \in DOMAIN latestIds} \ {0})
    /\ pc' = "start"
    /\ byKey' = <<>>
    /\ k' = 0
    /\ list' = <<>>
    /\ i' = 0
    /\ out' = <<>>
    /\ cur' = 0
    /\ sessions' = <<>>
    /\ avgQuiz' = <<"pending">>
    /\ latest' = <<>>
    /\ rowsOfOut' = <<>>
    /\ rowsOfSessions' = <<>>
    /\ idsOfOut' = <<>>
    /\ idsOfSessions' = <<>>
    /\ latestIds' = <<>>
    /\ UNCHANGED heap
    /\ UNCHANGED badgeVars
    /\ UNCHANGED <<serverVars, safeVars>>

NextRefetch ==
    \/ Next
    \/ Refetch

\* Renders of one set of rows fetched in two orders.
SpecRefetch == InitRerender /\ [][NextRefetch]_vars

\* ------------------------------------------------------------------------
\* Actions of the server: quiz attempts
\* ------------------------------------------------------------------------

\* POST /api/quiz-attempts up to its first await: the request is answered
\* 400, or its values are made safe.
PostReceive(h, req) ==
    /\ post[h].pc \in {"idle", "done"}
    /\ served < MaxRequests
    /\ served' = served + 1
    /\ post' = [post EXCEPT ![h] =
                   IF PostRejected(req)
                   THEN [IdleSlot EXCEPT !.pc = "done", !.status = 400]
                   ELSE [IdleSlot EXCEPT
                            !.pc = "find",
                            !.owner = OwnerUserId(req),
                            !.bookId = ParseInt(req.bookId),
                            !.pageId = IF req.pageId = <<>> THEN <<>>
                                       ELSE <<ParseInt(req.pageId)>>,
                            !.correct = ParseInt(req.scoreCorrect),
                            !.total = ParseInt(req.scoreTotal),
                            !.pct = ComputedPct(req),
                            !.pctSent = (req.percentage # <<>> /\ Len(req.percentage) = 1),
                            !.mode = IF req.mode = "straight" THEN "straight" ELSE "retry"]]
    /\ UNCHANGED <<quizTable, now, getResp>>
    /\ UNCHANGED <<pageVars, safeVars>>
    /\ UNCHANGED <<readingVars, awardVars>>

\* const existingLatest = await db.query.quizAttempts.findFirst(...)
PostFind(h) ==
    /\ post[h].pc = "find"
    /\ \E e \in ExistingLatest(quizTable, post[h].owner, post[h].bookId, post[h].pageId) :
          post' = [post EXCEPT ![h].pc = "insert", ![h].next = NextAttemptNumber(e)]
    /\ UNCHANGED <<quizTable, now, served, getResp>>
    /\ UNCHANGED <<pageVars, safeVars>>
    /\ UNCHANGED <<readingVars, awardVars>>

\* await db.insert(schema.quizAttempts).values(...).returning(), answer 201
PostInsert(h) ==
    /\ post[h].pc = "insert"
    /\ \E d \in ClockSteps :
          /\ now' = now + d
          /\ quizTable' = Append(quizTable,
                QuizRow(Len(quizTable) + 1, post[h].owner, post[h].bookId, post[h].pageId,
                        post[h].correct, post[h].total, post[h].pct, post[h].mode,
                        post[h].next, now + d))
    /\ post' = [post EXCEPT ![h].pc = "done", ![h].status = 201]
    /\ UNCHANGED <<served, getResp>>
    /\ UNCHANGED <<pageVars, safeVars>>
    /\ UNCHANGED <<readingVars, awardVars>>

\* The quiz-attempts query of the page gets its data: GET /api/quiz-attempts
\* without a query string, attempts = quizAttemptsData?.attempts || [].
Fetch(viewer) ==
    /\ pc = "fetch"
    /\ \E payload \in GetQuizAttempts(quizTable,
                         QuizGet(viewer.id, viewer.role, <<>>, <<>>, <<>>, FALSE)) :
          attempts' = [j \in 1..Len(payload) |-> AsQuizAttempt(payload[j])]
    /\ pc' = "start"
    /\ UNCHANGED <<byKey, k, list, i, out, cur, sessions, avgQuiz, latest,
                   rowsOfOut, rowsOfSessions>>
    /\ UNCHANGED <<renders, prev, heap, idsOfOut, idsOfSessions, latestIds, prevIds>>
    /\ UNCHANGED badgeVars
    /\ UNCHANGED <<serverVars, safeVars>>

\* The page before its queries have data, the server idle.
InitServer ==
    /\ attempts = <<>>
    /\ pc = "fetch"
    /\ byKey = <<>>
    /\ k = 0
    /\ list = <<>>
    /\ i = 0
    /\ out = <<>>
    /\ cur = 0
    /\ sessions = <<>>
    /\ avgQuiz = <<"pending">>
    /\ latest = <<>>
    /\ rowsOfOut = <<>>
    /\ rowsOfSessions = <<>>
    /\ earnedBadges = <<>>
    /\ shownBadges = <<>>
    /\ renders = 0
    /\ prev = <<>>
    /\ heap = 0
    /\ idsOfOut = <<>>
    /\ idsOfSessions = <<>>
    /\ latestIds = <<>>
    /\ prevIds = {}
    /\ ServerIdle
    /\ SafeIdle

\* Requests of two students for one book: scores the server stores, scores
\* it answers 400, and a score with a percentage of the client's.
StoredRequests ==
    {QuizPost(1, "student", <<1>>, <<1>>, <<3>>, <<5>>, <<>>, "retry"),
     QuizPost(1, "student", <<1>>, <<>>, <<23>>, <<40>>, <<>>, "straight"),
     QuizPost(2, "student", <<1>>, <<1>>, <<5>>, <<5>>, <<>>, "retry"),
     QuizPost(1, "student", <<1>>, <<1>>, <<0>>, <<5>>, <<250>>, "retry"),
     QuizPost(1, "student", <<1>>, <<1>>, <<2>>, <<0>>, <<>>, "retry"),
     QuizPost(1, "student", <<1>>, <<1>>, <<6>>, <<5>>, <<>>, "retry"),
     QuizPost(1, "student", <<1>>, <<1>>, <<-1>>, <<5>>, <<>>, "retry")}

\* Who looks at the page: a student, or a teacher (who is sent every row).
Viewers == {[id |-> 1, role |-> "student"], [id |-> 3, role |-> "teacher"]}

\* Quiz attempts are posted one after the other, then the page is loaded.
NextStored ==
    \/ pc = "fetch" /\ \E req \in StoredRequests : PostReceive(1, req)
    \/ PostFind(1)
    \/ PostInsert(1)
    \/ \E viewer \in Viewers : Fetch(viewer)
    \/ Next

SpecStored == InitServer /\ [][NextStored]_vars

\* Requests of one student for one book: for page 1, for page 2 and for
\* no page, and one the server answers 400.
NumberingRequests ==
    {QuizPost(1, "student", <<1>>, <<1>>, <<3>>, <<5>>, <<>>, "retry"),
     QuizPost(1, "student", <<1>>, <<2>>, <<3>>, <<5>>, <<>>, "retry"),
     QuizPost(1, "student", <<1>>, <<>>, <<3>>, <<5>>, <<>>, "retry"),
     QuizPost(1, "student", <<1>>, <<1>>, <<2>>, <<0>>, <<>>, "retry")}

\* Quiz attempts are posted, the requests of the two slots interleaving.
NextNumbering ==
    \/ \E h \in Handlers, req \in NumberingRequests : PostReceive(h, req)
    \/ \E h \in Handlers : PostFind(h)
    \/ \E h \in Handlers : PostInsert(h)

SpecNumbering == InitServer /\ [][NextNumbering]_vars

\* GET /api/quiz-attempts?latestPerBook=true
GetLatest(req) ==
    /\ req.latestPerBook
    /\ \E payload \in GetQuizAttempts(quizTable, req) :
          getResp' = <<[req |-> req, payload |-> payload, table |-> quizTable]>>
    /\ UNCHANGED <<quizTable, now, post, served>>
    /\ UNCHANGED <<pageVars, safeVars>>
    /\ UNCHANGED <<readingVars, awardVars>>

\* Requests of two students for two pages of book 1 and one page of book 2.
LatestRequests ==
    {QuizPost(1, "student", <<1>>, <<1>>, <<3>>, <<5>>, <<>>, "retry"),
     QuizPost(1, "student", <<1>>, <<2>>, <<3>>, <<5>>, <<>>, "retry"),
     QuizPost(2, "student", <<1>>, <<1>>, <<3>>, <<5>>, <<>>, "retry"),
     QuizPost(1, "student", <<2>>, <<1>>, <<3>>, <<5>>, <<>>, "retry")}

\* The queries with latestPerBook=true: of a student, of a teacher for
\* every user, and of a teacher for one user and one book.
LatestQueries ==
    {QuizGet(1, "student", <<>>, <<>>, <<>>, TRUE),
     QuizGet(3, "teacher", <<>>, <<>>, <<>>, TRUE),
     QuizGet(3, "teacher", <<1>>, <<1>>, <<>>, TRUE)}

\* Quiz attempts are posted one after the other, and the latest attempt per
\* book is asked for in between.
NextLatest ==
    \/ \E req \in LatestRequests : PostReceive(1, req)
    \/ PostFind(1)
    \/ PostInsert(1)
    \/ \E req \in LatestQueries : GetLatest(req)

SpecLatest == InitServer /\ [][NextLatest]_vars

\* ------------------------------------------------------------------------
\* Actions of the server: reading sessions and progress
\* ------------------------------------------------------------------------

\* POST /api/reading-sessions/start or /end up to its first await; body is
\* req.body.bookId, <<>> when it is missing.
ReadingReceive(h, kind, u, body) ==
    /\ rd[h].pc \in {"idle", "done"}
    /\ served < MaxRequests
    /\ served' = served + 1
    /\ rd' = [rd EXCEPT ![h] =
                 IF u = 0 \/ body = <<>> \/ body = <<0>>
                 THEN [IdleReading EXCEPT !.pc = "done", !.kind = kind, !.status = 400]
                 ELSE [IdleReading EXCEPT !.pc = "find", !.kind = kind,
                                          !.userId = u, !.bookId = body[1]]]
    /\ UNCHANGED <<now, readingTable, progressTable>>
    /\ UNCHANGED <<quizTable, post, getResp, awardVars>>
    /\ UNCHANGED <<pageVars, safeVars>>

\* start: const activeSession = await findFirst(...); answer with it if any
StartFind(h) ==
    /\ rd[h].kind = "start"
    /\ rd[h].pc = "find"
    /\ \E a \in ActiveSession(readingTable, rd[h].userId, rd[h].bookId) :
          rd' = [rd EXCEPT ![h] =
                   IF a # <<>>
                   THEN [@ EXCEPT !.pc = "done", !.status = 200,
                                  !.sessionId = a[1].id, !.startTime = a[1].startTime]
                   ELSE [@ EXCEPT !.pc = "insert"]]
    /\ UNCHANGED <<now, served, readingTable, progressTable>>
    /\ UNCHANGED <<quizTable, post, getResp, awardVars>>
    /\ UNCHANGED <<pageVars, safeVars>>

\* start: await insert(readingSessions).values({... startTime: new Date() ...})
StartInsert(h) ==
    /\ rd[h].kind = "start"
    /\ rd[h].pc = "insert"
    /\ \E d \in ClockSteps :
          /\ now' = now + d
          /\ readingTable' = Append(readingTable,
                ReadingRow(Len(readingTable) + 1, rd[h].userId, rd[h].bookId,
                           now + d, <<>>, <<>>))
          /\ rd' = [rd EXCEPT ![h].pc = "done", ![h].status = 200, ![h].created = TRUE,
                              ![h].sessionId = Len(readingTable) + 1,
                              ![h].startTime = now + d]
    /\ UNCHANGED <<served, progressTable>>
    /\ UNCHANGED <<quizTable, post, getResp, awardVars>>
    /\ UNCHANGED <<pageVars, safeVars>>

\* end: const activeSession = await findFirst(...); 404 without one, else
\* endTime = new Date() and totalSeconds
EndFind(h) ==
    /\ rd[h].kind = "end"
    /\ rd[h].pc = "find"
    /\ \E a \in ActiveSession(readingTable, rd[h].userId, rd[h].bookId) :
          IF a = <<>>
          THEN /\ rd' = [rd EXCEPT ![h].pc = "done", ![h].status = 404]
               /\ now' = now
          ELSE \E d \in ClockSteps :
                  /\ now' = now + d
                  /\ rd' = [rd EXCEPT ![h].pc = "update",
                                      ![h].sessionId = a[1].id,
                                      ![h].startTime = a[1].startTime,
                                      ![h].endTime = now + d,
                                      ![h].totalSeconds = TotalSeconds(a[1].startTime, now + d)]
    /\ UNCHANGED <<served, readingTable, progressTable>>
    /\ UNCHANGED <<quizTable, post, getResp, awardVars>>
    /\ UNCHANGED <<pageVars, safeVars>>

\* end: await update(readingSessions).set({ endTime, totalMinutes: totalSeconds })
EndUpdate(h) ==
    /\ rd[h].kind = "end"
    /\ rd[h].pc = "update"
    /\ readingTable' = UpdateRow(readingTable, rd[h].sessionId,
                                  [endTime |-> <<rd[h].endTime>>,
                                   totalMinutes |-> <<rd[h].totalSeconds>>])
    /\ rd' = [rd EXCEPT ![h].pc = "findProgress"]
    /\ UNCHANGED <<now, served, progressTable>>
    /\ UNCHANGED <<quizTable, post, getResp, awardVars>>
    /\ UNCHANGED <<pageVars, safeVars>>

\* end: const existingProgress = await findFirst(...)
EndFindProgress(h) ==
    /\ rd[h].kind = "end"
    /\ rd[h].pc = "findProgress"
    /\ \E e \in ExistingProgress(progressTable, rd[h].userId, rd[h].bookId) :
          rd' = [rd EXCEPT ![h] =
                   IF e = <<>> THEN [@ EXCEPT !.pc = "writeProgress", !.progressId = 0]
                   ELSE [@ EXCEPT !.pc = "writeProgress", !.progressId = e[1].id,
                                  !.existingTime = e[1].totalReadingTime]]
    /\ UNCHANGED <<now, served, readingTable, progressTable>>
    /\ UNCHANGED <<quizTable, post, getResp, awardVars>>
    /\ UNCHANGED <<pageVars, safeVars>>

\* end: update progress to existingTimeInSeconds + totalSeconds, or insert
\* a progress row with totalSeconds; answer 200
EndWriteProgress(h) ==
    /\ rd[h].kind = "end"
    /\ rd[h].pc = "writeProgress"
    /\ progressTable' =
          IF rd[h].progressId # 0
          THEN UpdateRow(progressTable, rd[h].progressId,
                         [totalReadingTime |-> rd[h].existingTime + rd[h].totalSeconds])
          ELSE Append(progressTable,
                      ProgressRow(Len(progressTable) + 1, rd[h].userId, rd[h].bookId,
                                  0, rd[h].totalSeconds))
    /\ rd' = [rd EXCEPT ![h].pc = "done", ![h].status = 200]
    /\ UNCHANGED <<now, served, readingTable>>
    /\ UNCHANGED <<quizTable, post, getResp, awardVars>>
    /\ UNCHANGED <<pageVars, safeVars>>

\* POST /api/progress of a student for a book that exists, up to the end of
\* await db.query.books.findFirst(...)
ProgressReceive(h, u, b, percent) ==
    /\ rd[h].pc \in {"idle", "done"}
    /\ served < MaxRequests
    /\ served' = served + 1
    /\ rd' = [rd EXCEPT ![h] =
                 [IdleReading EXCEPT !.pc = "find", !.kind = "progress",
                                     !.userId = u, !.bookId = b,
                                     !.percentComplete =
                                        IF percent < 0 THEN 0
                                        ELSE IF percent > 100 THEN 100 ELSE percent]]
    /\ UNCHANGED <<now, readingTable, progressTable>>
    /\ UNCHANGED <<quizTable, post, getResp, awardVars>>
    /\ UNCHANGED <<pageVars, safeVars>>

\* progress: const existing = await findFirst(...)
ProgressFind(h) ==
    /\ rd[h].kind = "progress"
    /\ rd[h].pc = "find"
    /\ \E e \in ExistingProgress(progressTable, rd[h].userId, rd[h].bookId) :
          rd' = [rd EXCEPT ![h].pc = "write",
                          ![h].progressId = IF e = <<>> THEN 0 ELSE e[1].id]
    /\ UNCHANGED <<now, served, readingTable, progressTable>>
    /\ UNCHANGED <<quizTable, post, getResp, awardVars>>
    /\ UNCHANGED <<pageVars, safeVars>>

\* progress: update percentComplete of the existing row (200), or insert
\* progressData (201)
ProgressWrite(h) ==
    /\ rd[h].kind = "progress"
    /\ rd[h].pc = "write"
    /\ progressTable' =
          IF rd[h].progressId # 0
          THEN UpdateRow(progressTable, rd[h].progressId,
                         [percentComplete |-> rd[h].percentComplete])
          ELSE Append(progressTable,
                      ProgressRow(Len(progressTable) + 1, rd[h].userId, rd[h].bookId,
                                  rd[h].percentComplete, 0))
    /\ rd' = [rd EXCEPT ![h].pc = "done",
                        ![h].status = IF rd[h].progressId # 0 THEN 200 ELSE 201]
    /\ UNCHANGED <<now, served, readingTable>>
    /\ UNCHANGED <<quizTable, post, getResp, awardVars>>
    /\ UNCHANGED <<pageVars, safeVars>>

\* Start and end requests of student 1 for book 1 (and one without a
\* bookId), the requests of the two slots interleaving.
NextReading ==
    \/ \E h \in Handlers, kind \in {"start", "end"}, body \in {<<1>>, <<>>} :
          ReadingReceive(h, kind, 1, body)
    \/ \E h \in Handlers : StartFind(h)
    \/ \E h \in Handlers : StartInsert(h)
    \/ \E h \in Handlers : EndFind(h)
    \/ \E h \in Handlers : EndUpdate(h)
    \/ \E h \in Handlers : EndFindProgress(h)
    \/ \E h \in Handlers : EndWriteProgress(h)

SpecReading == InitServer /\ [][NextReading]_vars

\* The same with POST /api/progress requests of the student for the book.
NextReadingTime ==
    \/ NextReading
    \/ \E h \in Handlers : ProgressReceive(h, 1, 1, 50)
    \/ \E h \in Handlers : ProgressFind(h)
    \/ \E h \in Handlers : ProgressWrite(h)

SpecReadingTime == InitServer /\ [][NextReadingTime]_vars

\* ------------------------------------------------------------------------
\* Actions of the server: book completion and badge awards
\* ------------------------------------------------------------------------

\* POST /api/books/:bookId/complete of user u (0: not authenticated) for a
\* book that exists, up to the end of await db.query.books.findFirst(...)
CompleteReceive(h, u, b) ==
    /\ aw[h].pc \in {"idle", "done"}
    /\ served < MaxRequests
    /\ served' = served + 1
    /\ aw' = [aw EXCEPT ![h] =
                 IF u = 0
                 THEN [IdleAward EXCEPT !.pc = "done", !.kind = "complete", !.status = 401]
                 ELSE [IdleAward EXCEPT !.pc = "findProgress", !.kind = "complete",
                                        !.userId = u, !.bookId = <<b>>,
                                        !.repeat = (<<u, b>> \in completions)]]
    /\ UNCHANGED <<now, progressTable, earnedTable, completions>>
    /\ UNCHANGED <<quizTable, post, getResp, readingTable, rd>>
    /\ UNCHANGED <<pageVars, safeVars>>

\* complete: const existingProgress = await findFirst(...)
CompleteFindProgress(h) ==
    /\ aw[h].kind = "complete"
    /\ aw[h].pc = "findProgress"
    /\ \E e \in ExistingProgress(progressTable, aw[h].userId, aw[h].bookId[1]) :
          aw' = [aw EXCEPT ![h].pc = "writeProgress",
                          ![h].progressId = IF e = <<>> THEN 0 ELSE e[1].id]
    /\ UNCHANGED <<now, served, progressTable, earnedTable, completions>>
    /\ UNCHANGED <<quizTable, post, getResp, readingTable, rd>>
    /\ UNCHANGED <<pageVars, safeVars>>

\* complete: update percentComplete to 100, or insert a row with 100
CompleteWriteProgress(h) ==
    /\ aw[h].kind = "complete"
    /\ aw[h].pc = "writeProgress"
    /\ progressTable' =
          IF aw[h].progressId # 0
          THEN UpdateRow(progressTable, aw[h].progressId, [percentComplete |-> 100])
          ELSE Append(progressTable,
                      ProgressRow(Len(progressTable) + 1, aw[h].userId, aw[h].bookId[1],
                                  100, 0))
    /\ aw' = [aw EXCEPT ![h].pc = "mapped"]
    /\ UNCHANGED <<now, served, earnedTable, completions>>
    /\ UNCHANGED <<quizTable, post, getResp, readingTable, rd>>
    /\ UNCHANGED <<pageVars, safeVars>>

\* The answer of the completion once the loop has no badge left.
CompleteAnswer(slot, rest) ==
    IF rest = <<>>
    THEN [slot EXCEPT !.pc = "done", !.status = 200, !.mappedBadges = rest, !.at = 0]
    ELSE [slot EXCEPT !.pc = "already", !.mappedBadges = rest, !.at = 0]

\* complete: const mappedBadges = await db.select(...).where(bookId)
CompleteMapped(h) ==
    /\ aw[h].kind = "complete"
    /\ aw[h].pc = "mapped"
    /\ aw' = [aw EXCEPT ![h] = CompleteAnswer(@, MappedBadges(aw[h].bookId[1]))]
    /\ completions' = IF aw'[h].pc = "done"
                       THEN completions \cup {<<aw[h].userId, aw[h].bookId[1]>>}
                       ELSE completions
    /\ UNCHANGED <<now, served, progressTable, earnedTable>>
    /\ UNCHANGED <<quizTable, post, getResp, readingTable, rd>>
    /\ UNCHANGED <<pageVars, safeVars>>

\* complete, for (const b of mappedBadges): const already = await findFirst(...)
CompleteAlready(h) ==
    /\ aw[h].kind = "complete"
    /\ aw[h].pc = "already"
    /\ \E a \in AlreadyEarned(earnedTable, aw[h].userId,
                               Head(aw[h].mappedBadges), aw[h].bookId) :
          aw' = [aw EXCEPT ![h] =
                   IF a = <<>> THEN [@ EXCEPT !.pc = "insert"]
                   ELSE CompleteAnswer(@, Tail(aw[h].mappedBadges))]
    /\ completions' = IF aw'[h].pc = "done"
                       THEN completions \cup {<<aw[h].userId, aw[h].bookId[1]>>}
                       ELSE completions
    /\ UNCHANGED <<now, served, progressTable, earnedTable>>
    /\ UNCHANGED <<quizTable, post, getResp, readingTable, rd>>
    /\ UNCHANGED <<pageVars, safeVars>>

\* complete, if (!already): await insert(earnedBadges); newlyAwarded.push(...)
CompleteInsert(h) ==
    /\ aw[h].kind = "complete"
    /\ aw[h].pc = "insert"
    /\ earnedTable' = Append(earnedTable,
                              EarnedRow(Len(earnedTable) + 1, aw[h].userId,
                                        Head(aw[h].mappedBadges), aw[h].bookId, <<>>))
    /\ aw' = [aw EXCEPT ![h] =
                 CompleteAnswer([@ EXCEPT !.newlyAwarded =
                                    Append(@, Head(aw[h].mappedBadges))],
                                Tail(aw[h].mappedBadges))]
    /\ completions' = IF aw'[h].pc = "done"
                       THEN completions \cup {<<aw[h].userId, aw[h].bookId[1]>>}
                       ELSE completions
    /\ UNCHANGED <<now, served, progressTable>>
    /\ UNCHANGED <<quizTable, post, getResp, readingTable, rd>>
    /\ UNCHANGED <<pageVars, safeVars>>

\* POST /api/users/:userId/badges by teacher `by` with body { badgeId,
\* bookId } (0: no badgeId, <<>>: no bookId), the user, the badge and the
\* book existing, up to the end of the lookups
AwardReceive(h, by, u, badgeId, b) ==
    /\ aw[h].pc \in {"idle", "done"}
    /\ served < MaxRequests
    /\ served' = served + 1
    /\ aw' = [aw EXCEPT ![h] =
                 IF badgeId = 0
                 THEN [IdleAward EXCEPT !.pc = "done", !.kind = "award", !.status = 400]
                 ELSE [IdleAward EXCEPT !.pc = "existing", !.kind = "award",
                                        !.userId = u, !.badgeId = badgeId,
                                        !.bookId = b, !.awardedById = <<by>>]]
    /\ UNCHANGED <<now, progressTable, earnedTable, completions>>
    /\ UNCHANGED <<quizTable, post, getResp, readingTable, rd>>
    /\ UNCHANGED <<pageVars, safeVars>>

\* award: const existing = await findFirst(...); 200 if it exists
AwardExisting(h) ==
    /\ aw[h].kind = "award"
    /\ aw[h].pc = "existing"
    /\ \E a \in AlreadyEarned(earnedTable, aw[h].userId, aw[h].badgeId, aw[h].bookId) :
          aw' = [aw EXCEPT ![h] =
                   IF a = <<>> THEN [@ EXCEPT !.pc = "insert"]
                   ELSE [@ EXCEPT !.pc = "done", !.status = 200]]
    /\ UNCHANGED <<now, served, progressTable, earnedTable, completions>>
    /\ UNCHANGED <<quizTable, post, getResp, readingTable, rd>>
    /\ UNCHANGED <<pageVars, safeVars>>

\* award: await insert(earnedBadges).values(...); 201
AwardInsert(h) ==
    /\ aw[h].kind = "award"
    /\ aw[h].pc = "insert"
    /\ earnedTable' = Append(earnedTable,
                              EarnedRow(Len(earnedTable) + 1, aw[h].userId, aw[h].badgeId,
                                        aw[h].bookId, aw[h].awardedById))
    /\ aw' = [aw EXCEPT ![h].pc = "done", ![h].status = 201]
    /\ UNCHANGED <<now, served, progressTable, completions>>
    /\ UNCHANGED <<quizTable, post, getResp, readingTable, rd>>
    /\ UNCHANGED <<pageVars, safeVars>>

\* Completions of book 1 by student 1 and awards of badge 1 to the student
\* by teacher 3 (for book 1, or without a book), the two slots interleaving.
NextAward ==
    \/ \E h \in Handlers, u \in {0, 1} : CompleteReceive(h, u, 1)
    \/ \E h \in Handlers : CompleteFindProgress(h)
    \/ \E h \in Handlers : CompleteWriteProgress(h)
    \/ \E h \in Handlers : CompleteMapped(h)
    \/ \E h \in Handlers : CompleteAlready(h)
    \/ \E h \in Handlers : CompleteInsert(h)
    \/ \E h \in Handlers, badgeId \in {0, 1}, b \in {<<>>, <<1>>} :
          AwardReceive(h, 3, 1, badgeId, b)
    \/ \E h \in Handlers : AwardExisting(h)
    \/ \E h \in Handlers : AwardInsert(h)

SpecAward == InitServer /\ [][NextAward]_vars

\* ------------------------------------------------------------------------
\* safePct on one attempt
\* ------------------------------------------------------------------------

\* An attempt of user 1 for book 1 with a percentage field.
ScoredAttempt(c, t, p) ==
    [userId |-> 1, bookId |-> 1, scoreCorrect |-> c, scoreTotal |-> t,
     percentage |-> p, mode |-> "retry", createdAt |-> <<1000>>]

\* Attempts with the percentage absent or null (<<>>), a number (0, 57,
\* 100) or a string, and with each score absent, a number or (the total) a
\* string; the scores cover 0, a negative total, an exact half (1 of 8) and
\* a quotient the double arithmetic rounds down (23 of 40).
SafePctDomain ==
    {ScoredAttempt(c, t, p) :
        c \in {<<>>, <<0>>, <<1>>, <<3>>, <<23>>},
        t \in {<<>>, <<0>>, <<5>>, <<8>>, <<40>>, <<0 - 5>>, <<"text", "abc">>},
        p \in {<<>>, <<0>>, <<57>>, <<100>>, <<"text", "80">>}}

InitSafePct ==
    /\ attempts = <<>>
    /\ pc = "fetch"
    /\ byKey = <<>>
    /\ k = 0
    /\ list = <<>>
    /\ i = 0
    /\ out = <<>>
    /\ cur = 0
    /\ sessions = <<>>
    /\ avgQuiz = <<"pending">>
    /\ latest = <<>>
    /\ rowsOfOut = <<>>
    /\ rowsOfSessions = <<>>
    /\ earnedBadges = <<>>
    /\ shownBadges = <<>>
    /\ renders = 0
    /\ prev = <<>>
    /\ heap = 0
    /\ idsOfOut = <<>>
    /\ idsOfSessions = <<>>
    /\ latestIds = <<>>
    /\ prevIds = {}
    /\ ServerIdle
    /\ \E a \in SafePctDomain : safeArg = <<a>>
    /\ safeOut = <<>>

\* The call safePct(a) returns.
ApplySafePct ==
    /\ safeArg # <<>>
    /\ safeOut = <<>>
    /\ safeOut' = <<safePct(safeArg[1])>>
    /\ UNCHANGED safeArg
    /\ UNCHANGED <<pageVars, serverVars>>

NextSafePct == ApplySafePct

SpecSafePct == InitSafePct /\ [][NextSafePct]_vars

\* ------------------------------------------------------------------------
\* Properties
\* ------------------------------------------------------------------------

\* Helpers of the properties.
RECURSIVE SumOver(_, _)
SumOver(f, S) ==
    IF S = {} THEN 0
    ELSE LET x == CHOOSE y \in S : TRUE IN f[x] + SumOver(f, S \ {x})

Range(q) == {q[j] : j \in DOMAIN q}
RowIds == 1..Len(attempts)
CorrectOfRow == [r \in RowIds |-> NumberOr0(attempts[r].scoreCorrect)]
TotalOfRow == [r \in RowIds |-> NumberOr0(attempts[r].scoreTotal)]
GapMs == SESSION_GAP_SEC * 1000

\* allSessions is complete once the render has reached the average.
Grouped == pc \in {"average", "render"}

\* The partition (userId, bookId) a session of allSessions was built from.
PartitionOf(j) == <<attempts[rowsOfSessions[j][1]].userId, attempts[rowsOfSessions[j][1]].bookId>>
SessionsOfKey(key) == {j \in 1..Len(sessions) : PartitionOf(j) = key}
RowsOfKey(key) == {r \in RowIds : <<attempts[r].userId, attempts[r].bookId>> = key}
Keys == Users \X Books

\* C1: in every session, totalCorrect and totalTotal are the sums of the
\* scoreCorrect and scoreTotal (absent counted as 0) of exactly the rows
\* grouped into it, during the walk and in allSessions; and over a whole
\* (user, book) partition the session totals add up to the row totals.
C1_TotalsAreSums ==
    /\ \A j \in 1..Len(out) :
          /\ out[j].totalCorrect = SumOver(CorrectOfRow, Range(rowsOfOut[j]))
          /\ out[j].totalTotal = SumOver(TotalOfRow, Range(rowsOfOut[j]))
    /\ \A j \in 1..Len(sessions) :
          /\ sessions[j].totalCorrect = SumOver(CorrectOfRow, Range(rowsOfSessions[j]))
          /\ sessions[j].totalTotal = SumOver(TotalOfRow, Range(rowsOfSessions[j]))
    /\ Grouped =>
          \A key \in Keys :
             /\ SumOver([j \in 1..Len(sessions) |-> sessions[j].totalCorrect], SessionsOfKey(key))
                   = SumOver(CorrectOfRow, RowsOfKey(key))
             /\ SumOver([j \in 1..Len(sessions) |-> sessions[j].totalTotal], SessionsOfKey(key))
                   = SumOver(TotalOfRow, RowsOfKey(key))

\* C1 witness: rows 3/5 and 4/5 of one partition, within the gap, have been
\* grouped into the single session 7/10, 70%.
C1_Witness ==
    /\ Grouped
    /\ Len(attempts) = 2
    /\ {<<attempts[r].scoreCorrect, attempts[r].scoreTotal>> : r \in RowIds} = {Score35, Score45}
    /\ Len(sessions) = 1
    /\ sessions[1].totalCorrect = 7
    /\ sessions[1].totalTotal = 10
    /\ sessions[1].percentage = 70

\* C2: in a step of the walk that finds a current session, the row joins it
\* when its timestamp minus the session's endAt is at most gapSec * 1000 ms,
\* and starts a new session when the difference is greater; so two rows of
\* one partition exactly 120000 ms apart end in one session and two rows
\* 120001 ms or more apart end in two.
C2_GapBoundary ==
    /\ [][(pc = "group" /\ i <= Len(list) /\ cur # 0 /\ i' = i + 1) =>
            LET d == ts(attempts[list[i]]) - out[cur].endAt
            IN  /\ d <= GapMs => /\ Len(out') = Len(out)
                                 /\ rowsOfOut'[cur] = Append(rowsOfOut[cur], list[i])
                /\ d > GapMs => /\ Len(out') = Len(out) + 1
                                /\ rowsOfOut'[Len(out')] = <<list[i]>>
                                /\ rowsOfOut'[cur] = rowsOfOut[cur]]_vars
    /\ [](Grouped /\ Len(attempts) = 2 /\ KeyOf(attempts[1]) = KeyOf(attempts[2]) =>
            LET d == ts(attempts[1]) - ts(attempts[2])
            IN  Len(sessions) = IF d <= GapMs /\ -d <= GapMs THEN 1 ELSE 2)

\* C2 witness: two rows exactly the gap apart are one session.
C2_Witness ==
    /\ Grouped
    /\ Len(attempts) = 2
    /\ ts(attempts[2]) - ts(attempts[1]) = 120000
    /\ Len(sessions) = 1
    /\ Len(rowsOfSessions[1]) = 2

\* C3: a session's mode is "straight" exactly when one of the rows grouped
\* into it has mode "straight", at whatever position, and "retry" otherwise
\* (also for rows with an unknown mode); a step of the walk never takes a
\* session from "straight" back to "retry".
C3_ModeTaint ==
    /\ [](/\ \A j \in 1..Len(out) :
               out[j].mode = IF \E r \in Range(rowsOfOut[j]) : attempts[r].mode = "straight"
                             THEN "straight" ELSE "retry"
          /\ \A j \in 1..Len(sessions) :
               sessions[j].mode =
                  IF \E r \in Range(rowsOfSessions[j]) : attempts[r].mode = "straight"
                  THEN "straight" ELSE "retry")
    /\ [][(pc = "group" /\ i' = i + 1) =>
            \A j \in 1..Len(out) : out[j].mode = "straight" => out'[j].mode = "straight"]_vars

\* C3 witness: a session of three rows whose middle row alone is "straight",
\* and whose last row has an unknown mode, reports "straight".
C3_Witness ==
    \E j \in 1..Len(sessions) :
       /\ Len(rowsOfSessions[j]) = 3
       /\ attempts[rowsOfSessions[j][1]].mode = "retry"
       /\ attempts[rowsOfSessions[j][2]].mode = "straight"
       /\ attempts[rowsOfSessions[j][3]].mode = "unknown"
       /\ sessions[j].mode = "straight"

\* p is Math.round(num / den) for den > 0: the integer with
\* p <= num / den + 1/2 < p + 1.
IsRounded(p, num, den) ==
    /\ 2 * p * den <= 2 * num + den
    /\ 2 * num + den < 2 * (p + 1) * den

PercentageOk(s) ==
    IF s.totalTotal > 0
    THEN IsRounded(s.percentage, 100 * s.totalCorrect, s.totalTotal)
    ELSE s.percentage = 0

C5_OrderedNonOverlapping ==
    /\ \A j, l \in 1..Len(out) :
          j < l => /\ out[j].startAt < out[l].startAt
                   /\ out[j].endAt < out[l].startAt
    /\ \A j, l \in 1..Len(sessions) :
          (j < l /\ PartitionOf(j) = PartitionOf(l)) =>
              /\ sessions[j].startAt < sessions[l].startAt
              /\ sessions[j].endAt < sessions[l].startAt

\* C5 witness: three rows of one partition fetched latest first have become
\* three sessions.
C5_Witness ==
    /\ Grouped
    /\ Len(attempts) = 3
    /\ ts(attempts[1]) > ts(attempts[2])
    /\ ts(attempts[2]) > ts(attempts[3])
    /\ Len(sessions) = 3
    /\ PartitionOf(1) = PartitionOf(3)

\* C6: allSessions partitions the rows by (userId, bookId): once it is
\* complete every row is in exactly one session, and at no time does a
\* session hold rows of two users or of two books.
C6_PartitionByKey ==
    /\ Grouped =>
          \A r \in RowIds :
             /\ Cardinality({j \in 1..Len(sessions) : r \in Range(rowsOfSessions[j])}) = 1
             /\ \A j \in 1..Len(sessions) :
                   Cardinality({x \in 1..Len(rowsOfSessions[j]) : rowsOfSessions[j][x] = r}) <= 1
    /\ \A j \in 1..Len(sessions) :
          \A r \in Range(rowsOfSessions[j]) :
             /\ attempts[r].userId = PartitionOf(j)[1]
             /\ attempts[r].bookId = PartitionOf(j)[2]
             /\ sessions[j].bookId = attempts[r].bookId
    /\ \A j \in 1..Len(out) :
          \A r1, r2 \in Range(rowsOfOut[j]) :
             /\ attempts[r1].userId = attempts[r2].userId
             /\ attempts[r1].bookId = attempts[r2].bookId

\* C6 witness: three rows of three different partitions, all within the gap
\* of each other, have become three sessions.
C6_Witness ==
    /\ Grouped
    /\ Len(attempts) = 3
    /\ Cardinality({KeyOf(attempts[r]) : r \in RowIds}) = 3
    /\ \A r1, r2 \in RowIds : ts(attempts[r1]) - ts(attempts[r2]) <= GapMs
    /\ \E r1, r2 \in RowIds : ts(attempts[r1]) # ts(attempts[r2])
    /\ Len(sessions) = 3

\* The sessions allSessions holds for one (user, book) partition, in order.
RECURSIVE SessionsOfPartition(_, _)
SessionsOfPartition(key, n) ==
    IF n = 0 THEN <<>>
    ELSE IF PartitionOf(n) = key THEN Append(SessionsOfPartition(key, n - 1), sessions[n])
    ELSE SessionsOfPartition(key, n - 1)

BooksOfRows == {attempts[r].bookId : r \in RowIds}
TsOfBook(b) == {ts(attempts[r]) : r \in {x \in RowIds : attempts[x].bookId = b}}

\* C7: sessionsForBook(bookId) is the session sequence allSessions holds for
\* the (user, bookId) partition of each user with rows for that book, so
\* the per-book session counts add up to allSessions.length.
C7_SessionsForBookIsPartition ==
    Grouped =>
       /\ \A key \in Keys :
             RowsOfKey(key) # {} =>
                sessionsForBook(attempts, key[2]) = SessionsOfPartition(key, Len(sessions))
       /\ SumOver([b \in Books |-> Len(sessionsForBook(attempts, b))], Books) = Len(sessions)

\* C8: latestQuizForBook(bookId) is null exactly when no row has that
\* bookId; otherwise it is the last session of sessionsForBook(bookId), no
\* session of the book starts later, and it contains the latest timestamp of
\* the book's rows.
C8_LatestQuizForBook ==
    \A b \in DOMAIN latest :
       LET ss == sessionsForBook(attempts, b)
       IN  /\ latest[b] = <<>> <=> b \notin BooksOfRows
           /\ latest[b] # <<>> =>
                 /\ latest[b][1] = ss[Len(ss)]
                 /\ \A j \in 1..Len(ss) : ss[j].startAt <= latest[b][1].startAt
                 /\ \A t \in TsOfBook(b) : t <= latest[b][1].endAt
                 /\ \E t \in TsOfBook(b) :
                       /\ latest[b][1].startAt <= t
                       /\ t = latest[b][1].endAt

\* C8 witness: both books are rendered; book 2 has no row and gives null,
\* book 1 has several sessions and gives the one that starts last.
C8_Witness ==
    /\ DOMAIN latest = Books
    /\ latest[2] = <<>>
    /\ latest[1] # <<>>
    /\ Len(sessionsForBook(attempts, 1)) >= 2
    /\ latest[1][1].startAt > sessionsForBook(attempts, 1)[1].startAt
    /\ ts(attempts[1]) = latest[1][1].endAt

MinPercentage == CHOOSE p \in {sessions[j].percentage : j \in 1..Len(sessions)} :
                    \A j \in 1..Len(sessions) : p <= sessions[j].percentage
MaxPercentage == CHOOSE p \in {sessions[j].percentage : j \in 1..Len(sessions)} :
                    \A j \in 1..Len(sessions) : p >= sessions[j].percentage

\* C9: with at least one session, averageQuizAcrossSessions is the mean of
\* the percentages of the sessions of allSessions (each session once,
\* however many rows it has), rounded to an integer, and lies between the
\* smallest and the largest session percentage.
C9_AverageOfSessions ==
    (pc = "render" /\ Len(sessions) > 0) =>
       /\ Len(avgQuiz) = 1
       /\ IsRounded(avgQuiz[1],
                    SumOver([j \in 1..Len(sessions) |-> sessions[j].percentage],
                            1..Len(sessions)),
                    Len(sessions))
       /\ MinPercentage <= avgQuiz[1]
       /\ avgQuiz[1] <= MaxPercentage

\* C9 witness: a session of two rows (70%) and a session of one row (0%)
\* average to 35, not to the mean of the three rows.
C9_Witness ==
    /\ pc = "render"
    /\ Len(sessions) = 2
    /\ Len(attempts) = 3
    /\ {sessions[1].percentage, sessions[2].percentage} = {0, 70}
    /\ avgQuiz = <<35>>

\* C10: with no rows, allSessions and every sessionsForBook are empty, every
\* latestQuizForBook is null and the average is null, not 0; the average is
\* null only when there is no session, so rows that all score 0 give 0.
C10_EmptyInput ==
    /\ Grouped /\ attempts = <<>> =>
          /\ sessions = <<>>
          /\ \A b \in Books : sessionsForBook(attempts, b) = <<>>
          /\ \A b \in DOMAIN latest : latest[b] = <<>>
    /\ pc = "render" =>
          /\ avgQuiz = <<>> <=> sessions = <<>>
          /\ sessions = <<>> <=> attempts = <<>>
          /\ (attempts # <<>> /\ \A j \in 1..Len(sessions) : sessions[j].percentage = 0)
                => avgQuiz = <<0>>

\* C10 witness: the render of an empty array is complete, with a null average.
C10_Witness ==
    /\ pc = "render"
    /\ attempts = <<>>
    /\ DOMAIN latest = Books
    /\ avgQuiz = <<>>

\* The session of allSessions a row was grouped into.
SessionOfRow(r) == CHOOSE j \in 1..Len(sessions) : r \in Range(rowsOfSessions[j])
TsOfRows(refs) == {ts(attempts[r]) : r \in Range(refs)}
MinOf(S) == CHOOSE x \in S : \A y \in S : x <= y
MaxOf(S) == CHOOSE x \in S : \A y \in S : x >= y

\* C12: a row without createdAt has timestamp 0: in the sorted array it is
\* before every row with a positive timestamp, it is in the first session
\* of its partition, which starts at 0, and a row later than gapSec * 1000
\* ms shares its session only through a chain of rows each within the gap
\* of the one before.
C12_NoCreatedAt ==
    /\ pc = "group" =>
          \A p, q \in 1..Len(list) :
             (attempts[list[p]].createdAt = <<>> /\ ts(attempts[list[q]]) > 0) => p < q
    /\ Grouped =>
          \A r \in RowIds :
             attempts[r].createdAt = <<>> =>
                LET j == SessionOfRow(r)
                IN  /\ ts(attempts[r]) = 0
                    /\ sessions[j].startAt = 0
                    /\ \A l \in 1..Len(sessions) : PartitionOf(l) = PartitionOf(j) => j <= l
                    /\ \A x \in Range(rowsOfSessions[j]) :
                          ts(attempts[x]) > GapMs =>
                             \E y \in Range(rowsOfSessions[j]) :
                                /\ ts(attempts[y]) < ts(attempts[x])
                                /\ ts(attempts[x]) - ts(attempts[y]) <= GapMs

\* C12 witness: a row without createdAt fetched last; one later row of its
\* partition is chained into its session, another one is in a later session.
C12_Witness ==
    /\ Grouped
    /\ Len(attempts) = 3
    /\ attempts[3].createdAt = <<>>
    /\ ts(attempts[1]) = 241001
    /\ ts(attempts[2]) = 1000
    /\ Len(sessions) = 2
    /\ rowsOfSessions[1] = <<3, 2>>
    /\ sessions[1].startAt = 0

\* C15: the gap is measured from the last row of the session: endAt is the
\* timestamp of the row that joined last, so a row joins exactly when it is
\* within the gap of the row before it in the sorted partition, and a
\* session may span more than the gap.
C15_GapFromLastActivity ==
    pc = "group" =>
       /\ cur # 0 => out[cur].endAt = ts(attempts[list[i - 1]])
       /\ \A p \in 2..(i - 1) :
             (\E j \in 1..Len(out) : {list[p - 1], list[p]} \subseteq Range(rowsOfOut[j]))
                <=> ts(attempts[list[p]]) - ts(attempts[list[p - 1]]) <= GapMs

\* C15 witness: three rows, each within the gap of the one before, are one
\* session that spans more than the gap.
C15_Witness ==
    /\ pc = "group"
    /\ Len(out) = 1
    /\ Len(rowsOfOut[1]) = 3
    /\ out[1].endAt - out[1].startAt > GapMs

\* C16: in a step of the walk no session's endAt moves backward; startAt <=
\* endAt holds in every state; in allSessions startAt is the least and
\* endAt the greatest timestamp of the rows grouped into the session; and
\* the sessions of sessionsForBook start and end at timestamps of the book's
\* rows, start no later than they end, and cover every row of the book.
C16_StartEndBounds ==
    /\ [][(pc = "group" /\ i' = i + 1) =>
            \A j \in 1..Len(out) : out'[j].endAt >= out[j].endAt]_vars
    /\ [](/\ \A j \in 1..Len(out) :
               /\ out[j].startAt <= out[j].endAt
               /\ out[j].startAt = MinOf(TsOfRows(rowsOfOut[j]))
               /\ out[j].endAt = MaxOf(TsOfRows(rowsOfOut[j]))
          /\ \A j \in 1..Len(sessions) :
               /\ sessions[j].startAt <= sessions[j].endAt
               /\ sessions[j].startAt = MinOf(TsOfRows(rowsOfSessions[j]))
               /\ sessions[j].endAt = MaxOf(TsOfRows(rowsOfSessions[j]))
          /\ pc = "render" =>
               \A b \in Books :
                  LET ss == sessionsForBook(attempts, b)
                  IN  /\ \A j \in 1..Len(ss) :
                            /\ ss[j].startAt <= ss[j].endAt
                            /\ ss[j].startAt \in TsOfBook(b)
                            /\ ss[j].endAt \in TsOfBook(b)
                            /\ \A l \in 1..Len(ss) : j < l => ss[j].endAt < ss[l].startAt
                      /\ \A t \in TsOfBook(b) :
                            \E j \in 1..Len(ss) : ss[j].startAt <= t /\ t <= ss[j].endAt)

\* C16 witness: a session of three rows fetched latest first starts at the
\* earliest and ends at the latest of them.
C16_Witness ==
    /\ Grouped
    /\ Len(attempts) = 3
    /\ ts(attempts[1]) = 121000
    /\ ts(attempts[2]) = 1000
    /\ ts(attempts[3]) = 0
    /\ Len(sessions) = 1
    /\ sessions[1].startAt = 0
    /\ sessions[1].endAt = 121000

\* The rows of a session whose scoreTotal is greater than 0.
ScoredRows(refs) == {r \in Range(refs) : NumberOr0(attempts[r].scoreTotal) > 0}

\* C13: a row whose scoreTotal is <= 0 adds 0 to the totalCorrect and the
\* totalTotal of its session, and a session of such rows only has
\* percentage 0.
C13_NonPositiveTotalAddsNothing ==
    \A j \in 1..Len(sessions) :
       /\ sessions[j].totalCorrect = SumOver(CorrectOfRow, ScoredRows(rowsOfSessions[j]))
       /\ sessions[j].totalTotal = SumOver(TotalOfRow, ScoredRows(rowsOfSessions[j]))
       /\ ScoredRows(rowsOfSessions[j]) = {} => sessions[j].percentage = 0

\* p is the integer nearest to num / den (den > 0), an exact half going to
\* the neighbour farther from zero.
IsNearestHalfAway(p, num, den) ==
    LET d == num - p * den
        a == IF d < 0 THEN -d ELSE d
    IN  /\ 2 * a <= den
        /\ 2 * a = den => IF num >= 0 THEN p * den > num ELSE p * den < num

\* C19: a session's percentage is the integer nearest to
\* 100 * totalCorrect / totalTotal, exact halves rounded away from zero, and
\* the average of the sessions is rounded by the same rule.
C19_RoundHalfAwayFromZero ==
    /\ \A j \in 1..Len(sessions) :
          sessions[j].totalTotal > 0 =>
             IsNearestHalfAway(sessions[j].percentage,
                               100 * sessions[j].totalCorrect, sessions[j].totalTotal)
    /\ (pc = "render" /\ Len(sessions) > 0) =>
          IsNearestHalfAway(avgQuiz[1],
                            SumOver([j \in 1..Len(sessions) |-> sessions[j].percentage],
                                    1..Len(sessions)),
                            Len(sessions))

\* The rows whose createdAt is present and is no date.
Unparseable == {r \in 1..Len(attempts) :
                  attempts[r].createdAt # <<>> /\ Len(attempts[r].createdAt) = 2}

\* C17: a row whose createdAt is present and unparseable counts as
\* timestamp 0: in the sorted partition it stands before every row of a
\* positive timestamp, the session that takes it starts at 0, and startAt
\* and endAt of every session are finite numbers.
C17_UnparseableIsEpoch ==
    /\ pc = "group" =>
          \A x, y \in 1..Len(list) :
             (list[y] \in Unparseable /\ list[x] \notin Unparseable
                /\ attempts[list[x]].createdAt # <<>>) => y < x
    /\ \A j \in 1..Len(out) :
          /\ out[j].startAt # NaN /\ out[j].endAt # NaN
          /\ Range(rowsOfOut[j]) \cap Unparseable # {} => out[j].startAt = 0
    /\ \A j \in 1..Len(sessions) :
          /\ sessions[j].startAt # NaN /\ sessions[j].endAt # NaN
          /\ Range(rowsOfSessions[j]) \cap Unparseable # {} => sessions[j].startAt = 0

\* What a score field contributes when a field that is null, absent or no
\* number counts as 0.
LenientNumber(v) == IF v = <<>> \/ Len(v) = 2 THEN 0 ELSE v[1]

\* C18: a scoreCorrect or scoreTotal that is null, absent or no number adds
\* 0 for that field, and totalCorrect, totalTotal and percentage of every
\* session are numbers.
C18_LenientNumerics ==
    \A j \in 1..Len(sessions) :
       /\ sessions[j].totalCorrect # NaN
       /\ sessions[j].totalTotal # NaN
       /\ sessions[j].percentage # NaN
       /\ sessions[j].totalCorrect =
             SumOver([r \in 1..Len(attempts) |-> LenientNumber(attempts[r].scoreCorrect)],
                     Range(rowsOfSessions[j]))
       /\ sessions[j].totalTotal =
             SumOver([r \in 1..Len(attempts) |-> LenientNumber(attempts[r].scoreTotal)],
                     Range(rowsOfSessions[j]))

\* The time the badge list is ordered by.
BadgeKey == [j \in 1..Len(earnedBadges) |-> BadgeTime(earnedBadges[j])]

\* C14: the rendered badge list is a permutation of earnedBadges, descending
\* by the best-available timestamp, badges of equal timestamp in their
\* input order; rendering does not reorder earnedBadges.
C14_BadgeOrder ==
    /\ [][earnedBadges' = earnedBadges]_vars
    /\ [](shownBadges # <<>> =>
            LET order == shownBadges[1]
            IN  /\ Len(order) = Len(earnedBadges)
                /\ Range(order) = 1..Len(earnedBadges)
                /\ \A x, y \in 1..Len(order) :
                      x < y => \/ BadgeKey[order[x]] > BadgeKey[order[y]]
                               \/ /\ BadgeKey[order[x]] = BadgeKey[order[y]]
                                  /\ order[x] < order[y])

\* C14 witness: three badges whose best dates lie under three different
\* names, two of them equal, are shown latest first and the equal ones in
\* input order.
C14_Witness ==
    /\ Len(earnedBadges) = 3
    /\ earnedBadges[1] = EarnedBadge(<<>>, <<>>, <<1000>>, <<>>)
    /\ earnedBadges[2] = EarnedBadge(<<>>, <<2000>>, <<>>, <<>>)
    /\ earnedBadges[3] = EarnedBadge(<<1000>>, <<>>, <<3000>>, <<>>)
    /\ shownBadges = << <<2, 1, 3>> >>

\* p is an initial part of q.
IsPrefix(p, q) == Len(p) <= Len(q) /\ \A j \in 1..Len(p) : p[j] = q[j]

C20_InputUntouchedResultsFresh ==
    /\ [][attempts' = attempts]_vars
    /\ [](/\ Range(idsOfOut) \cap prevIds = {}
          /\ Range(idsOfSessions) \cap prevIds = {}
          /\ \A x, y \in 1..Len(idsOfSessions) :
                x # y => idsOfSessions[x] # idsOfSessions[y]
          /\ Len(idsOfSessions) = Len(sessions)
          /\ \A b \in DOMAIN latestIds :
                latestIds[b] # 0 =>
                   /\ latestIds[b] \notin prevIds
                   /\ latestIds[b] \notin Range(idsOfSessions)
                   /\ \A c \in DOMAIN latestIds : c # b => latestIds[c] # latestIds[b])

\* C20 witness: the second render of an array fetched latest row first has
\* sorted and grouped it, returned sessions for both books, and the array
\* still is in its fetched order.
C20_Witness ==
    /\ renders = 1
    /\ pc = "render"
    /\ DOMAIN latest = Books
    /\ Len(attempts) = 3
    /\ ts(attempts[1]) = 241001
    /\ ts(attempts[2]) = 121000
    /\ ts(attempts[3]) = 0
    /\ prevIds # {}
    /\ latestIds[1] # 0
    /\ latestIds[2] # 0


\* The fields of a badge that are present, in the order of the chain.
DateFields(b) == <<b.awardedAt, b.awarded_at, b.createdAt, b.created_at>>

\* v is a field that holds a valid date of a positive time.
IsValidDate(v) == v # <<>> /\ Len(v) = 1 /\ v[1] > 0

\* C21: the sort key of a badge is the time of its first present field in
\* the order awardedAt, awarded_at, createdAt, created_at and 0 when none is
\* present; a badge without any of them is shown after every badge of a
\* positive key; a badge that has a valid createdAt is not keyed at 0.
C21_BestAvailableTimestamp ==
    shownBadges # <<>> =>
       LET order == shownBadges[1]
       IN  /\ \A j \in 1..Len(earnedBadges) :
                 LET f == DateFields(earnedBadges[j])
                     present == {x \in 1..4 : f[x] # <<>>}
                 IN  /\ present = {} => BadgeKey[j] = 0
                     /\ \A x \in present :
                           ((\A y \in present : x <= y) /\ IsValidDate(f[x]))
                              => BadgeKey[j] = f[x][1]
                     /\ IsValidDate(earnedBadges[j].createdAt) => BadgeKey[j] # 0
           /\ \A x, y \in 1..Len(order) :
                 (/\ \A z \in 1..4 : DateFields(earnedBadges[order[x]])[z] = <<>>
                  /\ BadgeKey[order[y]] > 0) => y < x


\* The timestamp next below t in the set T of timestamps, as a set (empty
\* for the least of T).
PredOf(T, t) == {u \in T : u < t /\ \A w \in T : w < t => w <= u}

\* The number of adjacent pairs of T in ascending order that are farther
\* apart than the gap (rows of equal timestamp are 0 apart).
FarPairs(T) == Cardinality({t \in T : \E u \in PredOf(T, t) : t - u > GapMs})

\* C22: sessions are maximal.  Neighbouring sessions of one partition are
\* more than gapSec * 1000 ms apart, inside a session every row is within
\* the gap of the row next before it in time, and a partition of n rows
\* has 1 + (number of adjacent sorted pairs farther apart than the gap)
\* sessions, between 1 and n of them.
C22_SessionsAreMaximal ==
    Grouped =>
       /\ \A j, l \in 1..Len(sessions) :
             (/\ j < l
              /\ PartitionOf(j) = PartitionOf(l)
              /\ \A x \in (j + 1)..(l - 1) : PartitionOf(x) # PartitionOf(j))
                => sessions[l].startAt - sessions[j].endAt > GapMs
       /\ \A j \in 1..Len(sessions) :
             LET T == TsOfRows(rowsOfSessions[j])
             IN  \A t \in T : \A u \in PredOf(T, t) : t - u <= GapMs
       /\ \A key \in Keys :
             RowsOfKey(key) # {} =>
                LET n == Cardinality(RowsOfKey(key))
                    m == Cardinality(SessionsOfKey(key))
                IN  /\ 1 <= m /\ m <= n
                    /\ m = 1 + FarPairs({ts(attempts[r]) : r \in RowsOfKey(key)})

\* C22 witness: a partition of three rows, two of them within the gap and
\* the third farther away, has become two sessions.
C22_Witness ==
    /\ Grouped
    /\ Len(attempts) = 3
    /\ Cardinality(RowsOfKey(<<1, 1>>)) = 3
    /\ {ts(attempts[r]) : r \in RowIds} = {1000, 121000, 241001}
    /\ Len(sessions) = 2
    /\ Len(rowsOfSessions[1]) = 2


\* How often x occurs in the sequence q.
CountIn(q, x) == Cardinality({j \in DOMAIN q : q[j] = x})

\* p and q hold the same elements, each as often.
SameBag(p, q) ==
    /\ Len(p) = Len(q)
    /\ \A x \in Range(p) \cup Range(q) : CountIn(p, x) = CountIn(q, x)

\* C23: for rows of valid timestamps fetched in another order (rows of
\* equal timestamp too), sessionsForBook gives the same sequence of
\* sessions for every book and allSessions the same sessions, each as
\* often; so the average and every book's latest session are the same.
C23_OrderInsensitive ==
    prev # <<>> =>
       /\ \A b \in Books :
             sessionsForBook(attempts, b) = sessionsForBook(prev[1].attempts, b)
       /\ \A b \in DOMAIN latest : latest[b] = prev[1].latest[b]
       /\ Grouped => SameBag(sessions, prev[1].sessions)
       /\ pc = "render" => avgQuiz = prev[1].avgQuiz

\* C23 witness: two rows of equal timestamp and different scores and a row
\* of another partition were fetched again in another order; allSessions
\* holds the same sessions in another order.
C23_Witness ==
    /\ prev # <<>>
    /\ pc = "render"
    /\ DOMAIN latest = Books
    /\ Len(attempts) = 3
    /\ attempts # prev[1].attempts
    /\ sessions # prev[1].sessions
    /\ \E x, y \in RowIds :
          /\ x < y
          /\ ts(attempts[x]) = ts(attempts[y])
          /\ attempts[x].scoreCorrect # attempts[y].scoreCorrect
          /\ KeyOf(attempts[x]) = KeyOf(attempts[y])
          /\ \E u, v \in 1..3 : u > v /\ prev[1].attempts[u] = attempts[x]
                                       /\ prev[1].attempts[v] = attempts[y]


\* C24: of rows the server accepted (scoreTotal > 0 and 0 <= scoreCorrect
\* <= scoreTotal), every session's percentage and the average are in
\* 0..100, and so is the percentage the server computes for a request
\* that sends none.
C24_PercentagesInRange ==
    /\ \A j \in 1..Len(quizTable) :
          /\ quizTable[j].scoreTotal > 0
          /\ 0 <= quizTable[j].scoreCorrect
          /\ quizTable[j].scoreCorrect <= quizTable[j].scoreTotal
    /\ \A h \in Handlers :
          (post[h].pc \in {"find", "insert"} /\ ~post[h].pctSent)
             => post[h].pct \in 0..100
    /\ \A j \in 1..Len(out) : out[j].percentage \in 0..100
    /\ \A j \in 1..Len(sessions) : sessions[j].percentage \in 0..100
    /\ (pc = "render" /\ avgQuiz # <<>>) => avgQuiz[1] \in 0..100
    /\ \A b \in DOMAIN latest : latest[b] # <<>> => latest[b][1].percentage \in 0..100

\* C24 witness: three requests were received, 23 of 40 was stored with the
\* percentage 57 and 5 of 5 with 100, a request was answered 400, and the
\* page of the teacher has grouped the two rows and computed the average.
C24_Witness ==
    /\ served = 3
    /\ Len(quizTable) = 2
    /\ \E j \in 1..2 : quizTable[j].scoreTotal = 40 /\ quizTable[j].percentage = 57
    /\ \E j \in 1..2 : quizTable[j].scoreTotal = 5 /\ quizTable[j].percentage = 100
    /\ post[1].status = 400
    /\ pc = "render"
    /\ Len(attempts) = 2
    /\ avgQuiz # <<>>
    /\ DOMAIN latest = Books


\* C28: the stored attempts of one (userId, bookId, pageId) have, in the
\* order of their insertion, strictly increasing (so pairwise distinct)
\* attemptNumbers, the first being 1; a request answered 400 is finished
\* and has inserted no row.
C28_AttemptNumbering ==
    /\ \A x, y \in 1..Len(quizTable) :
          (/\ x < y
           /\ quizTable[x].userId = quizTable[y].userId
           /\ quizTable[x].bookId = quizTable[y].bookId
           /\ quizTable[x].pageId = quizTable[y].pageId)
             => quizTable[x].attemptNumber < quizTable[y].attemptNumber
    /\ \A y \in 1..Len(quizTable) :
          (\A x \in 1..(y - 1) :
              \/ quizTable[x].userId # quizTable[y].userId
              \/ quizTable[x].bookId # quizTable[y].bookId
              \/ quizTable[x].pageId # quizTable[y].pageId)
             => quizTable[y].attemptNumber = 1
    /\ \A h \in Handlers : post[h].status = 400 => post[h].pc = "done"
    /\ Len(quizTable) <= served


\* C29: the answer to latestPerBook=true holds exactly one attempt for
\* every (userId, bookId) pair of the filtered rows, and that attempt is the
\* pair's latest: no row of the pair has a greater createdAt, whatever the
\* attemptNumbers are.
C29_LatestPerBook ==
    getResp # <<>> =>
       LET r == getResp[1]
           F == GetFiltered(r.table, r.req)
           KeyOfRow(a) == <<a.userId, a.bookId>>
       IN  /\ {KeyOfRow(r.payload[j]) : j \in 1..Len(r.payload)}
                 = {KeyOfRow(r.table[x]) : x \in F}
           /\ \A j, l \in 1..Len(r.payload) :
                 j # l => KeyOfRow(r.payload[j]) # KeyOfRow(r.payload[l])
           /\ \A j \in 1..Len(r.payload) :
                 /\ \E x \in F : r.table[x] = r.payload[j]
                 /\ \A x \in F :
                       KeyOfRow(r.table[x]) = KeyOfRow(r.payload[j])
                          => r.table[x].createdAt <= r.payload[j].createdAt


\* The reading sessions of (u, b) that are active, as positions.
ActiveOf(u, b) ==
    {j \in 1..Len(readingTable) :
       /\ readingTable[j].userId = u
       /\ readingTable[j].bookId = b
       /\ readingTable[j].endTime = <<>>}

\* C25: at most one reading session with endTime = null exists per
\* (userId, bookId), whatever start and end requests have run and however
\* they interleaved; a start request that found an active session has
\* created no row and answers that session's id.
C25_OneActiveReadingSession ==
    /\ \A u \in Users, b \in Books : Cardinality(ActiveOf(u, b)) <= 1
    /\ \A h \in Handlers :
          (rd[h].kind = "start" /\ rd[h].status = 200 /\ ~rd[h].created) =>
             /\ rd[h].sessionId \in 1..Len(readingTable)
             /\ readingTable[rd[h].sessionId].userId = rd[h].userId
             /\ readingTable[rd[h].sessionId].bookId = rd[h].bookId


\* The sum of the durations (the totalMinutes column holds seconds) of the
\* ended sessions of (u, b) among the first n rows of the table.
RECURSIVE SumEnded(_, _, _, _)
SumEnded(table, u, b, n) ==
    IF n = 0 THEN 0
    ELSE SumEnded(table, u, b, n - 1)
         + (IF /\ table[n].userId = u
               /\ table[n].bookId = b
               /\ table[n].endTime # <<>>
            THEN table[n].totalMinutes[1] ELSE 0)

\* No end request of (u, b) is between its session update and its answer.
NoEndInFlight(u, b) ==
    \A h \in Handlers :
       (rd[h].kind = "end" /\ rd[h].userId = u /\ rd[h].bookId = b) =>
          rd[h].pc \in {"idle", "find", "done"}

\* C26: for each (userId, bookId), once the end requests have answered,
\* progress.totalReadingTime equals the sum of the durations in seconds of
\* the pair's ended reading sessions (a progress row exists when a session
\* has ended, and every progress row of the pair carries the sum), also
\* when two end requests or an end request and a POST /api/progress
\* interleave; an end request that finds no active session answers 404 and
\* changes neither table.
C26_ReadingTimeAccounting ==
    /\ [](\A u \in Users, b \in Books :
            NoEndInFlight(u, b) =>
               /\ (\E j \in 1..Len(readingTable) :
                      /\ readingTable[j].userId = u
                      /\ readingTable[j].bookId = b
                      /\ readingTable[j].endTime # <<>>)
                    => ExistingProgress(progressTable, u, b) # {<<>>}
               /\ \A e \in ExistingProgress(progressTable, u, b) :
                     e # <<>> =>
                        e[1].totalReadingTime
                           = SumEnded(readingTable, u, b, Len(readingTable)))
    /\ [][\A h \in Handlers :
             (rd[h].kind = "end" /\ rd[h].pc = "find" /\ rd'[h].status = 404) =>
                UNCHANGED <<readingTable, progressTable>>]_vars


\* C27: earnedBadges holds at most one row per (userId, badgeId, bookId)
\* whatever completions and manual awards have run and however they
\* interleaved; a completion of a book the user has completed before
\* answers with an empty awardedBadges list and inserts no earned badge;
\* and when a completion has answered, the progress of the book is 100.
C27_BadgeAwardedAtMostOnce ==
    /\ [](\A j1, j2 \in 1..Len(earnedTable) :
            (/\ earnedTable[j1].userId = earnedTable[j2].userId
             /\ earnedTable[j1].badgeId = earnedTable[j2].badgeId
             /\ earnedTable[j1].bookId = earnedTable[j2].bookId) => j1 = j2)
    /\ [](\A h \in Handlers :
            (aw[h].kind = "complete" /\ aw[h].status = 200) =>
               /\ aw[h].repeat => aw[h].newlyAwarded = <<>>
               /\ ExistingProgress(progressTable, aw[h].userId, aw[h].bookId[1]) # {<<>>}
               /\ \A e \in ExistingProgress(progressTable, aw[h].userId, aw[h].bookId[1]) :
                     e # <<>> => e[1].percentComplete = 100)
    /\ [][\A h \in Handlers :
             (aw[h].kind = "complete" /\ aw[h].repeat /\ aw'[h] # aw[h]
              /\ aw'[h].kind = "complete" /\ aw'[h].pc # "findProgress") =>
                earnedTable' = earnedTable]_vars


\* p is Math.round((c / t) * 100) in double arithmetic, for t > 0: the
\* nearest integer of 100 * c / t, halves upward, but the integer below
\* the half where the double product falls just short of it.
IsRoundOfDouble(p, c, t) ==
    IF \E q \in DoubleBelowHalf : c * q[2] = q[1] * t
    THEN IsRounded(p + 1, 100 * c, t)
    ELSE IsRounded(p, 100 * c, t)

====
